---- MODULE Spec2Model ----
(***************************************************************************)
(* Glicko-2 rating engine of the Mafia statistics service.                 *)
(*                                                                         *)
(* Two copies of the engine live in the repository: the weighted,          *)
(* normalised one served by the Telegram webhook                           *)
(* (src/api/telegram_webhook.py) and the stand-alone one                   *)
(* (src/api/rating_engine.py).  Both are modelled, together with the       *)
(* REST store they read and write and the callback handler that starts a   *)
(* recompute.                                                              *)
(*                                                                         *)
(* Python floats are modelled by decimal floating-point numbers with an    *)
(* eight-digit significand: a number is [m, e] and stands for m * 10^e,    *)
(* with m = 0 or 10^7 <= |m| < 10^8.  Every intermediate value fits the    *)
(* 32-bit integers of the model checker.  Results are truncated towards    *)
(* zero.  A raised Python exception is a record with m = 0 and e # 0; it   *)
(* propagates through every arithmetic operator, as the exception          *)
(* propagates through the expression that raised it.                       *)
(*                                                                         *)
(* A value that the code computes once and uses several times is passed    *)
(* as an operator argument, which is computed once as well.                *)
(*                                                                         *)
(* Specifications: SpecGame calls process_game of either engine once;      *)
(* Spec runs full_recompute and incremental_compute of rating_engine.py    *)
(* over a store; SpecUnordered does so over a store that returns the games *)
(* in any order; SpecCallbacks interleaves two invocations of the webhook  *)
(* callback "recompute_rating"; SpecLazy runs the passes of Spec over a    *)
(* store of three well-formed games; SpecSolver runs one call of           *)
(* compute_new_sigma a loop round at a time, the variable frame holding    *)
(* its locals; SpecRating calls update_rating without opponents and the    *)
(* scale conversions on one rating, frame holding argument and result.     *)
(* SpecVariance calls compute_variance of either module once on a list of  *)
(* opponents.                                                              *)
(*                                                                         *)
(* The Telegram bot of the webhook and the spreadsheet import are modelled *)
(* as well.  SpecBot serves a sequence of updates through handler.do_POST, *)
(* one update a step, a text being the sequence of its characters;         *)
(* SpecSync runs sync_games over a sheet of two game columns, a run being  *)
(* one step in which at most one request to the store raises.              *)
(***************************************************************************)
EXTENDS Integers, Sequences, FiniteSets, TLC

(***************************************************************************)
(* Floating point                                                          *)
(***************************************************************************)
Zero == [m |-> 0, e |-> 0]
ZeroDivisionError == [m |-> 0, e |-> 1]
ValueError == [m |-> 0, e |-> 2]
OverflowError == [m |-> 0, e |-> 3]
NonTermination == [m |-> 0, e |-> 4]

Floats == [m : Int, e : Int]

IsErr(x) == x.m = 0 /\ x.e # 0

AbsInt(a) == IF a < 0 THEN 0 - a ELSE a

TDiv(a, n) == IF a >= 0 THEN a \div n ELSE 0 - ((0 - a) \div n)

\* m * 10^e with the significand brought to eight digits; a is |m|
NormAbs(m, e, a) ==
    CASE m = 0 -> Zero
      [] a >= 1000000000 -> [m |-> TDiv(m, 100), e |-> e + 2]
      [] a >= 100000000 -> [m |-> TDiv(m, 10), e |-> e + 1]
      [] a >= 10000000 -> [m |-> m, e |-> e]
      [] a >= 1000000 -> [m |-> m * 10, e |-> e - 1]
      [] a >= 100000 -> [m |-> m * 100, e |-> e - 2]
      [] a >= 10000 -> [m |-> m * 1000, e |-> e - 3]
      [] a >= 1000 -> [m |-> m * 10000, e |-> e - 4]
      [] a >= 100 -> [m |-> m * 100000, e |-> e - 5]
      [] a >= 10 -> [m |-> m * 1000000, e |-> e - 6]
      [] OTHER -> [m |-> m * 10000000, e |-> e - 7]

\* the normalised number for m * 10^e, |m| < 2^31
Norm(m, e) == NormAbs(m, e, AbsInt(m))

FromInt(n) == Norm(n, 0)

One == [m |-> 10000000, e |-> -7]
Two == [m |-> 20000000, e |-> -7]
HalfF == [m |-> 50000000, e |-> -8]

Sign(x) == IF x.m > 0 THEN 1 ELSE IF x.m < 0 THEN -1 ELSE 0

Neg[x \in Floats] == IF IsErr(x) THEN x ELSE [m |-> 0 - x.m, e |-> x.e]

Abs[x \in Floats] == IF IsErr(x) THEN x ELSE [m |-> AbsInt(x.m), e |-> x.e]

AddAligned[hi \in Floats, lo \in Floats] ==
    IF hi.e - lo.e > 9 THEN hi
    ELSE Norm(hi.m * 10 + TDiv(lo.m * 10, 10 ^ (hi.e - lo.e)), hi.e - 1)

Add[x \in Floats, y \in Floats] ==
    CASE IsErr(x) -> x
      [] IsErr(y) -> y
      [] x.m = 0 -> y
      [] y.m = 0 -> x
      [] x.e >= y.e -> AddAligned[x, y]
      [] OTHER -> AddAligned[y, x]

Sub[x \in Floats, y \in Floats] == Add[x, Neg[y]]

\* (hi * 10^8 + mid * 10^4 + lo) / 10^7
MulParts(hi, mid, lo) ==
    hi * 10 + (mid \div 1000) + (((mid % 1000) * 10000 + lo) \div 10000000)

MulHalves(a1, a0, b1, b0) == MulParts(a1 * b1, a1 * b0 + a0 * b1, a0 * b0)

\* a * b / 10^7, from the four partial products of the half words
MulMant(a, b) == MulHalves(a \div 10000, a % 10000, b \div 10000, b % 10000)

Mul[x \in Floats, y \in Floats] ==
    CASE IsErr(x) -> x
      [] IsErr(y) -> y
      [] x.m = 0 \/ y.m = 0 -> Zero
      [] OTHER ->
         Norm(Sign(x) * Sign(y) * MulMant(AbsInt(x.m), AbsInt(y.m)),
              x.e + y.e + 7)

Square[x \in Floats] == Mul[x, x]

\* one more digit of the long division by b: <<quotient, remainder>>
DivDigit(qr, b) == <<qr[1] * 10 + ((qr[2] * 10) \div b), (qr[2] * 10) % b>>

\* a * 10^8 / b, digit by digit
DivDigits(a, b) ==
    DivDigit(DivDigit(DivDigit(DivDigit(DivDigit(DivDigit(DivDigit(DivDigit(
        <<a \div b, a % b>>, b), b), b), b), b), b), b), b)[1]

Div[x \in Floats, y \in Floats] ==
    CASE IsErr(x) -> x
      [] IsErr(y) -> y
      [] y.m = 0 -> ZeroDivisionError
      [] x.m = 0 -> Zero
      [] OTHER ->
         Norm(Sign(x) * Sign(y) * DivDigits(AbsInt(x.m), AbsInt(y.m)),
              x.e - y.e - 8)

\* comparisons are only applied to numbers, never to a raised exception
Lt[x \in Floats, y \in Floats] == Sign(Sub[x, y]) < 0

Gt[x \in Floats, y \in Floats] == Sign(Sub[x, y]) > 0

\* truncation to an integer
ToInt[x \in Floats] ==
    IF x.e >= 0 THEN x.m * (10 ^ x.e)
    ELSE IF x.e < -8 THEN 0
    ELSE TDiv(x.m, 10 ^ (0 - x.e))

\* nearest integer
RoundInt[x \in Floats] ==
    IF x.m >= 0 THEN ToInt[Add[x, HalfF]] ELSE ToInt[Sub[x, HalfF]]

Newton(y, n) == (y + n \div y) \div 2

\* integer Newton iteration for the square root of n
ISqrt(n) ==
    Newton(Newton(Newton(Newton(IF n < 100000000 THEN 10000 ELSE 31623, n), n), n), n)

SqrtRefine[x \in Floats, y0 \in Floats] == Mul[Add[y0, Div[x, y0]], HalfF]

\* math.sqrt: integer Newton iteration on the significand, one refinement
SqrtPos[x \in Floats, m \in Int, e \in Int] == SqrtRefine[x, Norm(ISqrt(m), e \div 2)]

Sqrt[x \in Floats] ==
    CASE IsErr(x) -> x
      [] x.m < 0 -> ValueError
      [] x.m = 0 -> Zero
      [] x.e % 2 = 0 -> SqrtPos[x, x.m, x.e]
      [] OTHER -> SqrtPos[x, x.m * 10, x.e - 1]

Ln10 == [m |-> 23025851, e |-> -7]
InvLn10 == [m |-> 43429448, e |-> -8]
ExpMax == [m |-> 70978271, e |-> -5]
ExpMin == [m |-> -74513322, e |-> -5]

\* 1 + r * c * h, one step of Horner's rule
Horner[r \in Floats, c \in Floats, h \in Floats] == Add[One, Mul[Mul[r, c], h]]

\* Taylor polynomial of e^r for |r| <= 0.15, Horner form
ExpSmall[r \in Floats] ==
    Add[One, Mul[r,
        Horner[r, HalfF,
        Horner[r, [m |-> 33333333, e |-> -8],
        Horner[r, [m |-> 25000000, e |-> -8],
        Horner[r, [m |-> 20000000, e |-> -8],
        Horner[r, [m |-> 16666667, e |-> -8], One]]]]]]]

Scaled[x \in Floats, k \in Int] == [m |-> x.m, e |-> x.e + k]

ExpReduced[x \in Floats, k \in Int] ==
    Scaled[Square[Square[Square[
               ExpSmall[Mul[Sub[x, Mul[FromInt(k), Ln10]],
                            [m |-> 12500000, e |-> -8]]]]]], k]

\* math.exp: e^x = 10^k * (e^(r/8))^8 with x = k ln 10 + r; raises
\* OverflowError above the largest double, underflows to 0.0
Exp[x \in Floats] ==
    CASE IsErr(x) -> x
      [] Gt[x, ExpMax] -> OverflowError
      [] Lt[x, ExpMin] -> Zero
      [] OTHER -> ExpReduced[x, RoundInt[Mul[x, InvLn10]]]

Inverse(n) == Div[One, FromInt(n)]

\* 2 atanh z = 2 z (1 + z^2/3 + z^4/5 + ... + z^10/11), z2 = z^2
Atanh2[z \in Floats, z2 \in Floats] ==
    Mul[Two, Mul[z,
        Add[One, Mul[z2,
        Add[Inverse(3), Mul[z2,
        Add[Inverse(5), Mul[z2,
        Add[Inverse(7), Mul[z2,
        Add[Inverse(9), Mul[z2, Inverse(11)]]]]]]]]]]]]

LnRatio[z \in Floats] == Atanh2[z, Mul[z, z]]

\* ln y for y in [0.7, 1.4]: 2 atanh((y - 1) / (y + 1))
LnNear1[y \in Floats] == LnRatio[Div[Sub[y, One], Add[y, One]]]

LnScaled[y \in Floats, k \in Int] ==
    Add[Mul[FromInt(k), Ln10],
        Mul[[m |-> 40000000, e |-> -7], LnNear1[Sqrt[Sqrt[y]]]]]

\* math.log: ValueError outside the domain
Ln[x \in Floats] ==
    CASE IsErr(x) -> x
      [] x.m <= 0 -> ValueError
      [] x.m >= 31622777 -> LnScaled[[m |-> x.m, e |-> -8], x.e + 8]
      [] OTHER -> LnScaled[[m |-> x.m, e |-> -7], x.e + 7]

(***************************************************************************)
(* Helpers of the model: finite maps and sequences held as values          *)
(***************************************************************************)
\* the sequence f as an enumerated tuple (its elements are computed once)
Materialize(f) == f \o <<>>

\* the map f as an enumerated function
MaterializeMap(f) == f @@ <<>>

\* the smallest element of a non-empty set of integers
MinOf(S) == CHOOSE x \in S : \A y \in S : x <= y

\* terms[1] + ... + terms[n], added from the left as a Python loop adds
RECURSIVE SumTo(_, _)
SumTo(terms, n) == IF n = 0 THEN Zero ELSE Add[SumTo(terms, n - 1), terms[n]]

(***************************************************************************)
(* Glicko-2, shared by the two engines                                     *)
(***************************************************************************)
INITIAL_RATING == [m |-> 15000000, e |-> -4]
INITIAL_SIGMA == [m |-> 60000000, e |-> -9]
EPSILON == [m |-> 10000000, e |-> -13]
Glicko2Scale == [m |-> 17371780, e |-> -5]
Pi == [m |-> 31415927, e |-> -7]
Three == [m |-> 30000000, e |-> -7]
LargeVariance == [m |-> 10000000, e |-> -1]

\* the solver's loops have no bound in the code; the model gives up after
\* this many rounds and reports NonTermination
MaxBracketSteps == 10
MaxSolverRounds == 32

Raised(r) == IsErr(r.rating) \/ IsErr(r.rd) \/ IsErr(r.sigma)

FailedRating(err) == [rating |-> err, rd |-> err, sigma |-> err]

to_glicko2_scale(p) ==
    [mu |-> Div[Sub[p.rating, INITIAL_RATING], Glicko2Scale],
     phi |-> Div[p.rd, Glicko2Scale]]

\* the conversion back without the offset of 1500
from_glicko2_scale_unshifted(mu, phi, sigma) ==
    [rating |-> Mul[mu, Glicko2Scale],
     rd |-> Mul[phi, Glicko2Scale],
     sigma |-> sigma]

from_glicko2_scale(mu, phi, sigma) ==
    [rating |-> Add[Mul[mu, Glicko2Scale], INITIAL_RATING],
     rd |-> Mul[phi, Glicko2Scale],
     sigma |-> sigma]

g_function[phi \in Floats] ==
    Div[One, Sqrt[Add[One, Div[Mul[Mul[Three, phi], phi], Mul[Pi, Pi]]]]]

e_function[mu \in Floats, mu_j \in Floats, phi_j \in Floats] ==
    Div[One, Add[One, Exp[Mul[Neg[g_function[phi_j]], Sub[mu, mu_j]]]]]

\* g and E of every opponent: compute_variance, compute_delta and the sum
\* of update_rating each call g_function and e_function on the same
\* arguments; the values are computed here once
Expectations(mu, opponents) ==
    Materialize([j \in 1..Len(opponents) |->
        [g |-> g_function[opponents[j].phi],
         e |-> e_function[mu, opponents[j].mu, opponents[j].phi]]])

\* term1 / term2 - term3 of f, with total = phi2 + v + ex
SigmaTerms[ex \in Floats, d2 \in Floats, phi2 \in Floats, v \in Floats, total \in Floats, term3 \in Floats] ==
    Sub[Div[Mul[ex, Sub[Sub[Sub[d2, phi2], v], ex]], Mul[Mul[Two, total], total]],
        term3]

SigmaParts[ex \in Floats, phi2 \in Floats, v_inv \in Floats, d2 \in Floats, v \in Floats, term3 \in Floats] ==
    CASE IsErr(ex) -> ex
      [] IsErr(v_inv) -> v_inv
      [] OTHER -> SigmaTerms[ex, d2, phi2, v, Add[Add[phi2, v], ex], term3]

\* the function f of compute_new_sigma
SigmaF[x \in Floats, a \in Floats, tau \in Floats, phi \in Floats, v \in Floats, delta \in Floats] ==
    SigmaParts[Exp[x], Mul[phi, phi], Div[One, v], Mul[delta, delta], v,
               Div[Sub[x, a], Mul[tau, tau]]]

RECURSIVE Bracket

BracketTest[k \in Int, x \in Floats, fx \in Floats, a \in Floats, tau \in Floats, phi \in Floats, v \in Floats, delta \in Floats] ==
    CASE IsErr(fx) -> fx
      [] Sign(fx) < 0 -> Bracket[k + 1, a, tau, phi, v, delta]
      [] OTHER -> x

BracketAt[k \in Int, x \in Floats, a \in Floats, tau \in Floats, phi \in Floats, v \in Floats, delta \in Floats] ==
    BracketTest[k, x, SigmaF[x, a, tau, phi, v, delta], a, tau, phi, v, delta]

\* while f(a - k * TAU) < 0: k += 1, from k on; B = a - k * TAU
Bracket[k \in Int, a \in Floats, tau \in Floats, phi \in Floats, v \in Floats, delta \in Floats] ==
    IF k > MaxBracketSteps THEN NonTermination
    ELSE BracketAt[k, Sub[a, Mul[FromInt(k), tau]], a, tau, phi, v, delta]

RECURSIVE Illinois

IllinoisUpdate[A \in Floats, fA \in Floats, B \in Floats, fB \in Floats, n \in Int, C \in Floats, fC \in Floats, a \in Floats, tau \in Floats, phi \in Floats, v \in Floats, delta \in Floats] ==
    IF ~IsErr(fC) /\ Sign(Mul[fC, fB]) < 0
    THEN Illinois[B, fB, C, fC, n + 1, a, tau, phi, v, delta]
    ELSE Illinois[A, Div[fA, Two], C, fC, n + 1, a, tau, phi, v, delta]

IllinoisStep[A \in Floats, fA \in Floats, B \in Floats, fB \in Floats, n \in Int, C \in Floats, a \in Floats, tau \in Floats, phi \in Floats, v \in Floats, delta \in Floats] ==
    IllinoisUpdate[A, fA, B, fB, n, C, SigmaF[C, a, tau, phi, v, delta],
                   a, tau, phi, v, delta]

\* while abs(B - A) > EPSILON: a regula falsi step, Illinois variant; n
\* counts the rounds made; the value is A when the loop ends
Illinois[A \in Floats, fA \in Floats, B \in Floats, fB \in Floats, n \in Int, a \in Floats, tau \in Floats, phi \in Floats, v \in Floats, delta \in Floats] ==
    CASE IsErr(A) -> A
      [] IsErr(B) -> B
      [] IsErr(fA) -> fA
      [] IsErr(fB) -> fB
      [] ~Gt[Abs[Sub[B, A]], EPSILON] -> A
      [] n >= MaxSolverRounds -> NonTermination
      [] OTHER ->
         IllinoisStep[A, fA, B, fB, n,
                      Add[A, Div[Mul[Sub[A, B], fA], Sub[fB, fA]]],
                      a, tau, phi, v, delta]

\* B of compute_new_sigma, with d2 = delta * delta and limit = phi * phi + v
UpperEnd[a \in Floats, d2 \in Floats, limit \in Floats, tau \in Floats, phi \in Floats, v \in Floats, delta \in Floats] ==
    CASE IsErr(a) -> a
      [] IsErr(d2) -> d2
      [] IsErr(limit) -> limit
      [] Gt[d2, limit] -> Ln[Sub[Sub[d2, Mul[phi, phi]], v]]
      [] OTHER -> Bracket[1, a, tau, phi, v, delta]

SigmaBetween[a \in Floats, B \in Floats, tau \in Floats, phi \in Floats, v \in Floats, delta \in Floats] ==
    CASE IsErr(a) -> a
      [] IsErr(B) -> B
      [] OTHER ->
         Exp[Div[Illinois[a, SigmaF[a, a, tau, phi, v, delta],
                          B, SigmaF[B, a, tau, phi, v, delta],
                          0, a, tau, phi, v, delta], Two]]

SigmaFrom[a \in Floats, tau \in Floats, phi \in Floats, v \in Floats, delta \in Floats] ==
    SigmaBetween[a, UpperEnd[a, Mul[delta, delta], Add[Mul[phi, phi], v],
                             tau, phi, v, delta],
                 tau, phi, v, delta]

compute_new_sigma[tau \in Floats, phi \in Floats, sigma \in Floats, v \in Floats, delta \in Floats] ==
    SigmaFrom[Ln[Mul[sigma, sigma]], tau, phi, v, delta]

\* the deviation returned as it came, not inflated by the volatility
RatingHeldScaled(s, sigma) ==
    from_glicko2_scale(s.mu, s.phi, sigma)

RatingDecayScaled(s, sigma) ==
    from_glicko2_scale(s.mu, Sqrt[Add[Mul[s.phi, s.phi], Mul[sigma, sigma]]], sigma)

\* the branch of update_rating taken when no game was played
RatingDecay(player) == RatingDecayScaled(to_glicko2_scale(player), player.sigma)

RatingWithMu(mu_new, phi_new, new_sigma) ==
    IF IsErr(mu_new) THEN FailedRating(mu_new)
    ELSE from_glicko2_scale(mu_new, phi_new, new_sigma)

\* the deviation returned is the change phi_new - phi, not phi_new
RatingWithPhiChange(s, games_sum, new_sigma, phi_new) ==
    IF IsErr(phi_new) THEN FailedRating(phi_new)
    ELSE RatingWithMu(Add[s.mu, Mul[Mul[phi_new, phi_new], games_sum]],
                      Sub[phi_new, s.phi], new_sigma)

RatingWithPhi(s, games_sum, new_sigma, phi_new) ==
    IF IsErr(phi_new) THEN FailedRating(phi_new)
    ELSE RatingWithMu(Add[s.mu, Mul[Mul[phi_new, phi_new], games_sum]],
                      phi_new, new_sigma)

\* phi_new taken to be phi_star, without the variance of the games
RatingWithoutVariance(s, v, games_sum, new_sigma) ==
    IF IsErr(new_sigma) THEN FailedRating(new_sigma)
    ELSE RatingWithPhi(s, games_sum, new_sigma,
             Sqrt[Add[Mul[s.phi, s.phi], Mul[new_sigma, new_sigma]]])

RatingWithSigma(s, v, games_sum, new_sigma) ==
    IF IsErr(new_sigma) THEN FailedRating(new_sigma)
    ELSE RatingWithPhi(s, games_sum, new_sigma,
             Div[One, Sqrt[Add[Div[One, Square[Sqrt[Add[Mul[s.phi, s.phi],
                                                       Mul[new_sigma, new_sigma]]]]],
                               Div[One, v]]]])

RatingWithDelta(tau, player, s, v, games_sum, delta) ==
    CASE IsErr(v) -> FailedRating(v)
      [] IsErr(delta) -> FailedRating(delta)
      [] OTHER -> RatingWithSigma(s, v, games_sum,
                      compute_new_sigma[tau, s.phi, player.sigma, v, delta])

\* the steps of update_rating after the variance v and the sum of
\* g * (s - E) over the opponents, for the system constant tau
RatingStep(tau, player, s, v, games_sum) ==
    RatingWithDelta(tau, player, s, v, games_sum, Mul[v, games_sum])

(***************************************************************************)
(* The weighted engine of src/api/telegram_webhook.py                      *)
(***************************************************************************)
INITIAL_RD == [m |-> 22500000, e |-> -5]
TAU == [m |-> 12500000, e |-> -7]
WEIGHT_MULTIPLIER == [m |-> 17500000, e |-> -7]

\* PlayerRating(player_id): the dataclass defaults
PlayerRating == [rating |-> INITIAL_RATING, rd |-> INITIAL_RD, sigma |-> INITIAL_SIGMA]

\* the sum inverted whatever its size
VarianceInverted(v_inv) ==
    CASE IsErr(v_inv) -> v_inv
      [] OTHER -> Div[One, v_inv]

VarianceFrom(v_inv) ==
    CASE IsErr(v_inv) -> v_inv
      [] Lt[v_inv, EPSILON] -> LargeVariance
      [] OTHER -> Div[One, v_inv]

\* v_inv += weight * g * g * e * (1.0 - e) over the opponents
compute_variance(expected, weights) ==
    VarianceFrom(SumTo(
        Materialize([j \in 1..Len(expected) |->
            Mul[Mul[Mul[Mul[weights[j], expected[j].g], expected[j].g],
                    expected[j].e], Sub[One, expected[j].e]]]),
        Len(expected)))

\* delta_sum += weight * g * (s - e) over the opponents
DeltaSum(expected, results, weights) ==
    SumTo(Materialize([j \in 1..Len(expected) |->
              Mul[Mul[weights[j], expected[j].g], Sub[results[j], expected[j].e]]]),
          Len(expected))

UpdateFrom(player, s, expected, results, weights) ==
    RatingStep(TAU, player, s, compute_variance(expected, weights),
               DeltaSum(expected, results, weights))

UpdateScaled(player, s, opponent_ratings, results, weights) ==
    UpdateFrom(player, s, Expectations(s.mu, opponent_ratings), results, weights)

update_rating(player, opponents, results, weights) ==
    IF Len(opponents) = 0 \/ Len(results) = 0
    THEN RatingDecay(player)
    ELSE UpdateScaled(player, to_glicko2_scale(player),
             Materialize([j \in 1..Len(opponents) |-> to_glicko2_scale(opponents[j])]),
             results, weights)

\* if player_id not in current_ratings: current_ratings[player_id] = PlayerRating(player_id)
RatingOrDefault(current_ratings, player_id) ==
    IF player_id \in DOMAIN current_ratings THEN current_ratings[player_id]
    ELSE PlayerRating

WithDefaults(current_ratings, ids) ==
    MaterializeMap([k \in DOMAIN current_ratings \cup ids |->
                       RatingOrDefault(current_ratings, k)])

winner_count(players_data) ==
    Cardinality({j \in 1..Len(players_data) : players_data[j].won})

loser_count(players_data) ==
    Cardinality({j \in 1..Len(players_data) : ~players_data[j].won})

\* the weight taken from the size of the player's own team
WeightPerOwnTeam(players_data, player_won) ==
    Div[WEIGHT_MULTIPLIER,
        FromInt(IF player_won THEN winner_count(players_data)
                ELSE loser_count(players_data))]

\* weight_per_match = WEIGHT_MULTIPLIER / opponent_count
WeightPerMatch(players_data, player_won) ==
    Div[WEIGHT_MULTIPLIER,
        FromInt(IF player_won THEN loser_count(players_data)
                ELSE winner_count(players_data))]

\* the positions 1..n as a sequence
Positions(n) == Materialize([j \in 1..n |-> j])

\* what the inner loop hands to update_rating for the player me, from the
\* positions of the opponents it keeps
MatchesAgainst(players_data, me, weight_per_match, others) ==
    [player_id |-> me.player_id,
     won |-> me.won,
     weight_per_match |-> weight_per_match,
     opponents |-> Materialize([n \in 1..Len(others) |->
                                   players_data[others[n]].player_id]),
     game_results |-> Materialize([n \in 1..Len(others) |->
                                      IF me.won THEN One ELSE Zero]),
     weights |-> Materialize([n \in 1..Len(others) |-> weight_per_match])]

\* the inner loop without the teammate test: every other player is handed
\* to update_rating, a teammate with the player's own result
MicromatchesWithTeammates(players_data, i) ==
    MatchesAgainst(players_data, players_data[i],
        WeightPerMatch(players_data, players_data[i].won),
        SelectSeq(Positions(Len(players_data)),
            LAMBDA j : players_data[j].player_id # players_data[i].player_id))

\* the inner loop of process_game for the player at position i: the
\* opponents, results and weights handed to update_rating
Micromatches(players_data, i) ==
    MatchesAgainst(players_data, players_data[i],
        WeightPerMatch(players_data, players_data[i].won),
        SelectSeq(Positions(Len(players_data)),
            LAMBDA j : /\ players_data[j].player_id # players_data[i].player_id
                       /\ players_data[j].won # players_data[i].won))

\* step 1 of process_game for one player; the ratings read are those of
\* the map at entry, which step 1 only extends with defaults
TentativeRating(call, current_ratings) ==
    IF IsErr(call.weight_per_match) THEN FailedRating(call.weight_per_match)
    ELSE update_rating(RatingOrDefault(current_ratings, call.player_id),
             Materialize([n \in 1..Len(call.opponents) |->
                            RatingOrDefault(current_ratings, call.opponents[n])]),
             call.game_results, call.weights)

\* sum(after.rating - before.rating for pid, _ in players_data)
TotalChange(before, after) ==
    SumTo(Materialize([j \in 1..Len(after) |->
              Sub[after[j].rating, before[j].rating]]),
          Len(after))

\* the correction spread over the nine other players only
CorrectionOverOthers(total_change) == Div[total_change, FromInt(9)]

\* correction = total_change / 10.0
NormalizationCorrection(total_change) == Div[total_change, FromInt(10)]

\* the ids for which a failed process_game has created default entries:
\* every player the outer loop reached and every opponent the inner loop
\* reached before the exception
DefaultsCreated(players_data, failed, in_update) ==
    {players_data[i].player_id : i \in 1..failed}
    \cup UNION {{players_data[j].player_id :
                    j \in {k \in 1..Len(players_data) :
                             players_data[k].won # players_data[i].won}} :
                i \in 1..(IF in_update THEN failed ELSE failed - 1)}

\* the position of the last entry of player id in players_data
LastPosition(players_data, id) ==
    CHOOSE i \in 1..Len(players_data) :
        /\ players_data[i].player_id = id
        /\ \A j \in (i + 1)..Len(players_data) : players_data[j].player_id # id

\* step 3 of process_game: the corrected ratings are written to the map
Committed(players_data, current_ratings, calls, before, final, correction, ids) ==
    [error |-> Zero,
     results |-> Materialize([i \in 1..Len(players_data) |->
                    [player_id |-> players_data[i].player_id,
                     before |-> before[i], after |-> final[i]]]),
     calls |-> calls,
     correction |-> correction,
     current_ratings |->
         MaterializeMap([k \in DOMAIN current_ratings \cup ids |->
             IF k \in ids THEN final[LastPosition(players_data, k)]
             ELSE current_ratings[k]])]

\* the correction taken from the rating and from the rd alike
CorrectedThroughout(players_data, current_ratings, calls, before, tentative, correction) ==
    Committed(players_data, current_ratings, calls, before,
        Materialize([i \in 1..Len(players_data) |->
            [rating |-> Sub[tentative[i].rating, correction],
             rd |-> Sub[tentative[i].rd, correction],
             sigma |-> tentative[i].sigma]]),
        correction,
        {players_data[i].player_id : i \in 1..Len(players_data)})

\* step 3 of process_game: the correction is taken from every rating
Corrected(players_data, current_ratings, calls, before, tentative, correction) ==
    Committed(players_data, current_ratings, calls, before,
        Materialize([i \in 1..Len(players_data) |->
            [rating |-> Sub[tentative[i].rating, correction],
             rd |-> tentative[i].rd,
             sigma |-> tentative[i].sigma]]),
        correction,
        {players_data[i].player_id : i \in 1..Len(players_data)})

\* steps 2 and 3 of process_game
Normalized(players_data, current_ratings, calls, before, tentative) ==
    Corrected(players_data, current_ratings, calls, before, tentative,
              NormalizationCorrection(TotalChange(before, tentative)))

\* process_game left by the exception that the update of the player at
\* position failed raised
Aborted(players_data, current_ratings, calls, tentative, failed) ==
    [error |-> tentative[failed].rating,
     results |-> <<>>,
     calls |-> SubSeq(calls, 1, failed),
     correction |-> Zero,
     current_ratings |-> WithDefaults(current_ratings,
         DefaultsCreated(players_data, failed,
                         ~IsErr(calls[failed].weight_per_match)))]

Settled(players_data, current_ratings, calls, before, tentative, failures) ==
    IF failures # {}
    THEN Aborted(players_data, current_ratings, calls, tentative, MinOf(failures))
    ELSE Normalized(players_data, current_ratings, calls, before, tentative)

\* step 1 of process_game: the tentative ratings of the ten players
Tentative(players_data, current_ratings, calls, tentative) ==
    Settled(players_data, current_ratings, calls,
        Materialize([i \in 1..Len(players_data) |->
            RatingOrDefault(current_ratings, players_data[i].player_id)]),
        tentative,
        {i \in 1..Len(players_data) : Raised(tentative[i])})

Played(players_data, current_ratings, calls) ==
    Tentative(players_data, current_ratings, calls,
        Materialize([i \in 1..Len(players_data) |->
            TentativeRating(calls[i], current_ratings)]))

process_game(game_id, players_data, current_ratings) ==
    IF Len(players_data) # 10
    THEN [error |-> ValueError, results |-> <<>>, calls |-> <<>>,
          correction |-> Zero, current_ratings |-> current_ratings]
    ELSE Played(players_data, current_ratings,
             Materialize([i \in 1..Len(players_data) |->
                             Micromatches(players_data, i)]))

(***************************************************************************)
(* The engine of src/api/rating_engine.py                                  *)
(***************************************************************************)
rating_engine_INITIAL_RD == [m |-> 35000000, e |-> -5]
rating_engine_TAU == [m |-> 50000000, e |-> -8]

rating_engine_PlayerRating ==
    [rating |-> INITIAL_RATING, rd |-> rating_engine_INITIAL_RD, sigma |-> INITIAL_SIGMA]

\* v_inv += g * g * e * (1.0 - e) over the opponents
rating_engine_compute_variance(expected) ==
    VarianceFrom(SumTo(
        Materialize([j \in 1..Len(expected) |->
            Mul[Mul[Mul[expected[j].g, expected[j].g], expected[j].e],
                Sub[One, expected[j].e]]]),
        Len(expected)))

\* delta_sum += g * (s - e) over the opponents
rating_engine_DeltaSum(expected, results) ==
    SumTo(Materialize([j \in 1..Len(expected) |->
              Mul[expected[j].g, Sub[results[j], expected[j].e]]]),
          Len(expected))

rating_engine_UpdateFrom(player, s, expected, results) ==
    RatingStep(rating_engine_TAU, player, s,
               rating_engine_compute_variance(expected),
               rating_engine_DeltaSum(expected, results))

rating_engine_UpdateScaled(player, s, opponent_ratings, results) ==
    rating_engine_UpdateFrom(player, s, Expectations(s.mu, opponent_ratings), results)

rating_engine_update_rating(player, opponents, results) ==
    IF Len(opponents) = 0 \/ Len(results) = 0
    THEN RatingDecay(player)
    ELSE rating_engine_UpdateScaled(player, to_glicko2_scale(player),
             Materialize([j \in 1..Len(opponents) |-> to_glicko2_scale(opponents[j])]),
             results)

rating_engine_RatingOrDefault(current_ratings, player_id) ==
    IF player_id \in DOMAIN current_ratings THEN current_ratings[player_id]
    ELSE rating_engine_PlayerRating

rating_engine_MatchesAgainst(players_data, me, others) ==
    [player_id |-> me.player_id,
     won |-> me.won,
     opponents |-> Materialize([n \in 1..Len(others) |->
                                   players_data[others[n]].player_id]),
     game_results |-> Materialize([n \in 1..Len(others) |->
                         IF players_data[others[n]].won = me.won THEN HalfF
                         ELSE IF me.won THEN One ELSE Zero])]

\* the inner loop of process_game for the player at position i: every other
\* player is an opponent; 0.5 against a player with the same outcome
rating_engine_Matches(players_data, i) ==
    rating_engine_MatchesAgainst(players_data, players_data[i],
        SelectSeq(Positions(Len(players_data)),
            LAMBDA j : players_data[j].player_id # players_data[i].player_id))

\* results[player_id] = (rating_before, rating_after) and
\* current_ratings[player_id] = rating_after, or the exception of update_rating
rating_engine_Written(s, call, known, rating_after) ==
    IF Raised(rating_after)
    THEN [i |-> s.i, current_ratings |-> known, results |-> <<>>,
          calls |-> Append(s.calls, call), error |-> rating_after.rating]
    ELSE [i |-> s.i + 1,
          current_ratings |-> [known EXCEPT ![call.player_id] = rating_after],
          results |-> Append(s.results,
                         [player_id |-> call.player_id,
                          before |-> known[call.player_id], after |-> rating_after]),
          calls |-> Append(s.calls, call), error |-> Zero]

\* the update of one player on the map known, which holds an entry for the
\* player and every opponent
rating_engine_Updated(s, call, known) ==
    rating_engine_Written(s, call, known,
        rating_engine_update_rating(known[call.player_id],
            Materialize([n \in 1..Len(call.opponents) |-> known[call.opponents[n]]]),
            call.game_results))

rating_engine_Called(s, call) ==
    rating_engine_Updated(s, call,
        MaterializeMap(
            [k \in DOMAIN s.current_ratings
                   \cup {call.player_id}
                   \cup {call.opponents[n] : n \in 1..Len(call.opponents)} |->
                rating_engine_RatingOrDefault(s.current_ratings, k)]))

\* one pass of the outer loop of process_game, on the record
\* [i, current_ratings, results, calls, error]; every rating is read from,
\* and every posterior written to, the one map current_ratings
rating_engine_PlayerStep(s, players_data) ==
    rating_engine_Called(s, rating_engine_Matches(players_data, s.i))

\* for player_id, player_won in players_data, left at the first exception
RECURSIVE rating_engine_PlayerLoop(_, _)
rating_engine_PlayerLoop(s, players_data) ==
    IF s.i > Len(players_data) \/ IsErr(s.error) THEN s
    ELSE rating_engine_PlayerLoop(rating_engine_PlayerStep(s, players_data),
                                  players_data)

\* the players of the map without a result of the game get the update of a
\* rating period without games
rating_engine_OutcomeAllUpdated(end) ==
    [error |-> end.error, results |-> end.results, calls |-> end.calls,
     current_ratings |->
         MaterializeMap([k \in DOMAIN end.current_ratings |->
             IF \E n \in 1..Len(end.results) : end.results[n].player_id = k
             THEN end.current_ratings[k]
             ELSE rating_engine_update_rating(end.current_ratings[k], <<>>, <<>>)])]

rating_engine_Outcome(end) ==
    [error |-> end.error, results |-> end.results, calls |-> end.calls,
     current_ratings |-> end.current_ratings]

rating_engine_process_game(game_id, players_data, current_ratings) ==
    IF Len(players_data) # 10
    THEN [error |-> ValueError, results |-> <<>>, calls |-> <<>>,
          current_ratings |-> current_ratings]
    ELSE rating_engine_Outcome(rating_engine_PlayerLoop(
             [i |-> 1, current_ratings |-> current_ratings,
              results |-> <<>>, calls |-> <<>>, error |-> Zero], players_data))

(***************************************************************************)
(* The REST store and the recompute loops                                  *)
(***************************************************************************)
RoundHalfEven(q, r, unit) ==
    IF 2 * r > unit \/ (2 * r = unit /\ q % 2 = 1) THEN q + 1 ELSE q

RoundUnits(x, ndigits, unit) ==
    Norm(Sign(x) * RoundHalfEven(AbsInt(x.m) \div unit, AbsInt(x.m) % unit, unit),
         0 - ndigits)

\* round(x, ndigits): the nearest multiple of 10^-ndigits, a tie to the even one
round(x, ndigits) ==
    CASE x.e >= 0 - ndigits -> x
      [] 0 - ndigits - x.e > 8 -> Zero
      [] OTHER -> RoundUnits(x, ndigits, 10 ^ (0 - ndigits - x.e))

\* one element of rating_history_records
HistoryRecord(game_id, result) ==
    [game_id |-> game_id,
     player_id |-> result.player_id,
     rating_before |-> round(result.before.rating, 2),
     rd_before |-> round(result.before.rd, 2),
     sigma_before |-> round(result.before.sigma, 6),
     rating_after |-> round(result.after.rating, 2),
     rd_after |-> round(result.after.rd, 2),
     sigma_after |-> round(result.after.sigma, 6)]

\* the records of all entries of results but the last
HistoryRecordsButLast(game_id, results) ==
    Materialize([i \in 1..(Len(results) - 1) |->
                     HistoryRecord(game_id, results[i])])

\* for player_id, (before, after) in results.items()
HistoryRecords(game_id, results) ==
    Materialize([i \in 1..Len(results) |-> HistoryRecord(game_id, results[i])])

\* the rows of table role: id and code
role == (1 :> "M") @@ (2 :> "Sh") @@ (3 :> "Mf") @@ (4 :> "D")

\* the rows in descending order of id
RECURSIVE OrderByIdDescending(_)
OrderByIdDescending(rows) ==
    IF rows = {} THEN <<>>
    ELSE <<CHOOSE g \in rows : \A h \in rows : g.id >= h.id>>
         \o OrderByIdDescending(
                rows \ {CHOOSE g \in rows : \A h \in rows : g.id >= h.id})

\* api.get('game', select='id,mafia_won', order='id.asc')
RECURSIVE OrderById(_)
OrderById(rows) ==
    IF rows = {} THEN <<>>
    ELSE <<CHOOSE g \in rows : \A h \in rows : g.id <= h.id>>
         \o OrderById(rows \ {CHOOSE g \in rows : \A h \in rows : g.id <= h.id})

\* the filter id=in.(new_game_ids) on table game
GamesIn(game_rows, new_game_ids) ==
    {g \in game_rows : \E n \in 1..Len(new_game_ids) : new_game_ids[n] = g.id}

\* games_data[game_id]: the game_player rows of the game, in the order the
\* API returned them; no rows if game_id is not in games_data
PlayersInGame(game_players, game_id) ==
    SelectSeq(game_players, LAMBDA gp : gp.game_id = game_id)

\* whether the player with this role won
PlayerWon(role_code, mafia_won) ==
    IF role_code \in {"M", "Sh"} THEN ~mafia_won ELSE mafia_won

\* the list players_data built from the rows of one game
PlayersData(players_in_game, mafia_won) ==
    Materialize([i \in 1..Len(players_in_game) |->
        [player_id |-> players_in_game[i].player_id,
         won |-> PlayerWon(role[players_in_game[i].role_id], mafia_won)]])

\* the loop of a recompute pass before its first game: n is the position
\* in games, warnings and errors are the game ids the pass printed a
\* "Warning: ..." or an "Error processing game ..." line for, applied is
\* the list of the calls of process_game
LoopStart(current_ratings) ==
    [n |-> 1, current_ratings |-> current_ratings,
     rating_history_records |-> <<>>, warnings |-> {}, errors |-> {},
     applied |-> <<>>]

\* the try block around process_game: on an exception the records of the
\* game are not appended; the map is the one process_game worked on
GameProcessed(s, game, r) ==
    [n |-> s.n + 1,
     current_ratings |-> r.current_ratings,
     rating_history_records |->
         IF IsErr(r.error) THEN s.rating_history_records
         ELSE s.rating_history_records \o HistoryRecords(game.id, r.results),
     warnings |-> s.warnings,
     errors |-> IF IsErr(r.error) THEN s.errors \cup {game.id} ELSE s.errors,
     applied |-> Append(s.applied,
                    [game_id |-> game.id, before |-> s.current_ratings,
                     after |-> r.current_ratings, error |-> r.error])]

\* one game of the loop of full_recompute and of incremental_compute in
\* rating_engine.py
rating_engine_GameStep(s, game, players_in_game) ==
    CASE Len(players_in_game) = 0 -> [s EXCEPT !.n = @ + 1]
      [] Len(players_in_game) # 10 ->
         [s EXCEPT !.n = @ + 1, !.warnings = @ \cup {game.id}]
      [] OTHER ->
         GameProcessed(s, game,
             rating_engine_process_game(game.id,
                 PlayersData(players_in_game, game.mafia_won),
                 s.current_ratings))

\* for game in games
RECURSIVE rating_engine_GameLoop(_, _, _)
rating_engine_GameLoop(s, games, game_players) ==
    IF s.n > Len(games) THEN s
    ELSE rating_engine_GameLoop(
             rating_engine_GameStep(s, games[s.n],
                 PlayersInGame(game_players, games[s.n].id)),
             games, game_players)

\* one game of the loop of full_recompute in telegram_webhook.py
GameStep(s, game, players_in_game) ==
    CASE Len(players_in_game) = 0 -> [s EXCEPT !.n = @ + 1]
      [] Len(players_in_game) # 10 ->
         [s EXCEPT !.n = @ + 1, !.warnings = @ \cup {game.id}]
      [] OTHER ->
         GameProcessed(s, game,
             process_game(game.id,
                 PlayersData(players_in_game, game.mafia_won),
                 s.current_ratings))

\* for idx, game in enumerate(games, 1)
RECURSIVE GameLoop(_, _, _)
GameLoop(s, games, game_players) ==
    IF s.n > Len(games) THEN s
    ELSE GameLoop(GameStep(s, games[s.n],
                      PlayersInGame(game_players, games[s.n].id)),
                  games, game_players)

\* the view player_current_rating: for every player with history rows, the
\* ratings after the row inserted last
player_current_rating(history) ==
    MaterializeMap(
        [p \in {history[n].player_id : n \in 1..Len(history)} |->
            [rating |-> history[CHOOSE n \in 1..Len(history) :
                            /\ history[n].player_id = p
                            /\ \A k \in (n + 1)..Len(history) :
                                   history[k].player_id # p].rating_after,
             rd |-> history[CHOOSE n \in 1..Len(history) :
                            /\ history[n].player_id = p
                            /\ \A k \in (n + 1)..Len(history) :
                                   history[k].player_id # p].rd_after,
             sigma |-> history[CHOOSE n \in 1..Len(history) :
                            /\ history[n].player_id = p
                            /\ \A k \in (n + 1)..Len(history) :
                                   history[k].player_id # p].sigma_after]])

\* what a pass leaves: the table player_rating_history, the value returned,
\* the game ids in the order the loop met them, the map the loop started
\* from, and what the loop did
PassResult(history, returned, games, seed, end) ==
    [player_rating_history |-> history,
     returned |-> returned,
     supplied |-> Materialize([n \in 1..Len(games) |-> games[n].id]),
     seed |-> seed,
     warnings |-> end.warnings,
     errors |-> end.errors,
     applied |-> end.applied,
     records |-> end.rating_history_records,
     current_ratings |-> end.current_ratings]

\* a pass that ended before its loop
NotStarted(history, returned) ==
    PassResult(history, returned, <<>>, <<>>, LoopStart(<<>>))

\* api.delete('player_rating_history', id='gte.0') inside try / except: pass
Deleted(history, delete_raises) == IF delete_raises THEN history ELSE <<>>

\* Step 6: api.post('player_rating_history', batch) if there are records;
\* the passes of the model build fewer than 100 records, one batch
Inserted(history, games, seed, end, post_raises) ==
    IF end.rating_history_records # <<>> /\ post_raises
    THEN PassResult(history, FALSE, games, seed, end)
    ELSE PassResult(history \o end.rating_history_records, TRUE, games, seed, end)

\* the calls of the API that may raise inside the outer try block
ApiFailures == {"none", "get", "post"}

\* full_recompute of rating_engine.py on the table history, when the API
\* returns games; end is the loop over games from the empty map
rating_engine_full_recompute(history, games, delete_raises, failing, end) ==
    CASE failing = "get" -> NotStarted(Deleted(history, delete_raises), FALSE)
      [] games = <<>> -> NotStarted(Deleted(history, delete_raises), TRUE)
      [] OTHER -> Inserted(Deleted(history, delete_raises), games, <<>>, end,
                           failing = "post")

\* incremental_compute of rating_engine.py; end is the loop over games from
\* the map seed, which was read from player_current_rating
rating_engine_incremental_compute(history, new_game_ids, games, seed, failing, end) ==
    CASE new_game_ids = <<>> -> NotStarted(history, TRUE)
      [] failing = "get" -> NotStarted(history, FALSE)
      [] OTHER -> Inserted(history, games, seed, end, failing = "post")

(***************************************************************************)
(* State                                                                   *)
(***************************************************************************)
VARIABLES
    current_ratings,        \* the rating map handed to process_game
    players_data,           \* the (player_id, won) list handed to process_game
    outcome,                \* what the last call of process_game did
    game,                   \* table game: rows [id, mafia_won]
    game_player,            \* table game_player: rows [game_id, player_id, role_id]
    player_rating_history,  \* table player_rating_history, in insertion order
    run,                    \* what the last pass of rating_engine.py did
    handlers,               \* the invocations of the webhook handler
    frame,                  \* the frame of a function of the engines called directly
    user_states,            \* the dict user_states of telegram_webhook.py
    setting,                \* table setting: the value of each key
    hidden,                 \* table player: the names of the rows with is_hidden
    served,                 \* the update served last: what it sent and what it did
    player_rows,            \* table player: rows [id, name]
    sheet,                  \* the spreadsheet: the names of the cells filled in each column
    sync                    \* what the last run of sync_games did

vars == <<current_ratings, players_data, outcome, game, game_player,
          player_rating_history, run, handlers, frame, user_states, setting,
          hidden, served, player_rows, sheet, sync>>

bot_vars == <<user_states, setting, hidden, served>>

sync_vars == <<player_rows, sheet, sync>>

game_vars == <<current_ratings, players_data, outcome>>

store_vars == <<game, game_player, player_rating_history>>

NoOutcome == [engine |-> "none"]

NoFrame == [pc |-> "none"]

NoRun ==
    [passes |-> 0, kind |-> "none", new_game_ids |-> <<>>, returned |-> TRUE,
     supplied |-> <<>>, seed |-> <<>>, warnings |-> {}, errors |-> {},
     applied |-> <<>>, records |-> <<>>, reflected |-> {}]

NoUpdate == [kind |-> "none"]

NoSync == [runs |-> 0, mode |-> "none", next_game_id |-> 1, next_player_id |-> 1]

\* the bot has served no update and the webhook instance has just started
BotIdle ==
    /\ user_states = <<>>
    /\ setting = <<>>
    /\ hidden = {}
    /\ served = NoUpdate

\* sync_games has not run; no spreadsheet is looked at
SyncIdle ==
    /\ player_rows = {}
    /\ sheet = <<>>
    /\ sync = NoSync

\* the webhook serves two callbacks at a time at most
Handlers == {1, 2}

Idle ==
    [pc |-> "idle", games |-> <<>>, rating_history_records |-> <<>>,
     success |-> FALSE]

NoHandlers == [h \in Handlers |-> Idle]

(***************************************************************************)
(* Inputs of process_game                                                  *)
(***************************************************************************)
\* player ids run from 1 to MaxPlayerId
MaxPlayerId == 11

PlayersPerGame == 10

Float(m, e) == [m |-> m, e |-> e]

Rated(rating, rd, sigma) == [rating |-> rating, rd |-> rd, sigma |-> sigma]

\* the rating maps a game may meet: nobody rated yet, some players rated,
\* everybody rated after some games
SomeRated ==
    (1 :> Rated(Float(17000000, -4), Float(10000000, -5), Float(60000000, -9)))
    @@ (2 :> Rated(Float(14000000, -4), Float(60000000, -6), Float(60000000, -9)))
    @@ (3 :> Rated(Float(15504321, -4), Float(22500000, -5), Float(59981234, -9)))
    @@ (4 :> Rated(Float(16251200, -4), Float(15075000, -5), Float(50000000, -9)))
    @@ (5 :> Rated(Float(13507700, -4), Float(30010000, -5), Float(70000000, -9)))

AllRated ==
    [p \in 1..MaxPlayerId |->
        Rated(Float(15000000 + (((p * 7919) % 601) - 300) * 10000, -4),
              Norm(4000000 + ((p * 104729) % 300) * 100000, -5),
              Float(60000000 + (((p * 31) % 21) - 10) * 100000, -9))]

PriorCatalogue == {<<>>, SomeRated, AllRated}

\* the ten players of a game: everybody up to MaxPlayerId but the players
\* sitting out, in the order of the game_player rows
Roster(first) == [i \in 1..PlayersPerGame |-> first + i - 1]

\* the first k seats won
Split(roster, k) ==
    [i \in 1..Len(roster) |-> [player_id |-> roster[i], won |-> i <= k]]

GameCatalogue ==
    {Split(Roster(first), k) :
        first \in 1..(MaxPlayerId - PlayersPerGame + 1), k \in 0..PlayersPerGame}
    \cup {Split(SubSeq(Roster(1), 1, PlayersPerGame - 1), 3)}

Observed(engine, before, r, correction) ==
    [engine |-> engine, before |-> before, error |-> r.error,
     results |-> r.results, calls |-> r.calls, correction |-> correction]

InitGame ==
    /\ current_ratings \in PriorCatalogue
    /\ players_data \in GameCatalogue
    /\ outcome = NoOutcome
    /\ game = {}
    /\ game_player = <<>>
    /\ player_rating_history = <<>>
    /\ run = NoRun
    /\ handlers = NoHandlers
    /\ BotIdle
    /\ SyncIdle
    /\ frame = NoFrame

\* the map is changed in place by process_game
GameProcessedBy(engine, r, correction) ==
    /\ current_ratings' = r.current_ratings
    /\ outcome' = Observed(engine, current_ratings, r, correction)
    /\ UNCHANGED <<players_data, store_vars, run, handlers, frame,
                 bot_vars, sync_vars>>

WebhookProcessed(r) == GameProcessedBy("webhook", r, r.correction)

\* process_game of telegram_webhook.py on the chosen input
WebhookProcessGame ==
    /\ outcome.engine = "none"
    /\ WebhookProcessed(process_game(1, players_data, current_ratings))

\* process_game of rating_engine.py on the chosen input
RatingEngineProcessGame ==
    /\ outcome.engine = "none"
    /\ GameProcessedBy("rating_engine",
           rating_engine_process_game(1, players_data, current_ratings), Zero)

NextGame == WebhookProcessGame \/ RatingEngineProcessGame

SpecGame == InitGame /\ [][NextGame]_vars

(***************************************************************************)
(* The passes of rating_engine.py over a store                             *)
(***************************************************************************)
\* a pass is started at most this many times
MaxPasses == 2

\* the ten seats of a game: the Don, two Mafia, the Sheriff, six citizens
SeatRole(i) == IF i = 1 THEN 4 ELSE IF i <= 3 THEN 3 ELSE IF i = 4 THEN 2 ELSE 1

\* count rows of game_player for a game, for the players from first on
GameRows(game_id, first, count) ==
    [i \in 1..count |->
        [game_id |-> game_id, player_id |-> first + i - 1, role_id |-> SeatRole(i)]]

GameTable ==
    {[id |-> 1, mafia_won |-> TRUE], [id |-> 2, mafia_won |-> FALSE],
     [id |-> 3, mafia_won |-> FALSE]}

\* the player rows that game 2 has: none yet, one too few, one too many
MalformedCounts == {0, PlayersPerGame - 1, PlayersPerGame + 1}

GamePlayerCatalogue ==
    {GameRows(1, 1, PlayersPerGame) \o GameRows(2, 1, count)
         \o GameRows(3, 2, PlayersPerGame) : count \in MalformedCounts}

\* rows of game 1 that an earlier pass left in the table; the volatility
\* of player 4 is stored as 0
StoredRecord(p) ==
    [game_id |-> 1, player_id |-> p,
     rating_before |-> Float(15000000, -4),
     rd_before |-> Float(35000000, -5),
     sigma_before |-> Float(60000000, -9),
     rating_after |-> Norm(150000 + (((p * 7919) % 41) - 20) * 525, -2),
     rd_after |-> Float(30012000, -5),
     sigma_after |-> IF p = 4 THEN Zero ELSE Float(60000000, -9)]

StoredHistory == [p \in 1..PlayersPerGame |-> StoredRecord(p)]

HistoryCatalogue == {<<>>, StoredHistory}

\* the lists new_game_ids a caller passes to incremental_compute
NewGameIds == {<<>>, <<1>>, <<2, 3>>, <<3, 1>>}

Init ==
    /\ game = GameTable
    /\ game_player \in GamePlayerCatalogue
    /\ player_rating_history \in HistoryCatalogue
    /\ run = NoRun
    /\ handlers = NoHandlers
    /\ BotIdle
    /\ SyncIdle
    /\ frame = NoFrame
    /\ current_ratings = <<>>
    /\ players_data = <<>>
    /\ outcome = NoOutcome

\* the pass r has ended; reflected is the set of the games that had rows in
\* player_rating_history when the pass began
Passed(kind, new_game_ids, r) ==
    /\ player_rating_history' = r.player_rating_history
    /\ run' = [passes |-> run.passes + 1, kind |-> kind,
               new_game_ids |-> new_game_ids, returned |-> r.returned,
               supplied |-> r.supplied, seed |-> r.seed,
               warnings |-> r.warnings, errors |-> r.errors,
               applied |-> r.applied, records |-> r.records,
               reflected |-> {player_rating_history[n].game_id :
                                 n \in 1..Len(player_rating_history)}]
    /\ UNCHANGED <<game, game_player, handlers, game_vars, frame,
                 bot_vars, sync_vars>>

FullRecomputeWith(games, end) ==
    \E delete_raises \in BOOLEAN, failing \in ApiFailures :
        Passed("full_recompute", <<>>,
               rating_engine_full_recompute(player_rating_history, games,
                                            delete_raises, failing, end))

\* full_recompute when api.get('game', ...) returns games
FullRecomputeOn(games) ==
    FullRecomputeWith(games,
        rating_engine_GameLoop(LoopStart(<<>>), games, game_player))

RatingEngineFullRecompute ==
    /\ run.passes < MaxPasses
    /\ FullRecomputeOn(OrderById(game))

IncrementalComputeWith(new_game_ids, games, seed, end) ==
    \E failing \in ApiFailures :
        Passed("incremental_compute", new_game_ids,
               rating_engine_incremental_compute(player_rating_history,
                   new_game_ids, games, seed, failing, end))

IncrementalComputeSeeded(new_game_ids, games, seed) ==
    IncrementalComputeWith(new_game_ids, games, seed,
        rating_engine_GameLoop(LoopStart(seed), games,
            SelectSeq(game_player,
                LAMBDA gp : \E n \in 1..Len(new_game_ids) :
                                new_game_ids[n] = gp.game_id)))

\* incremental_compute when api.get('game', ...) returns games
IncrementalComputeOn(new_game_ids, games) ==
    IncrementalComputeSeeded(new_game_ids, games,
        player_current_rating(player_rating_history))

RatingEngineIncrementalCompute ==
    /\ run.passes < MaxPasses
    /\ \E new_game_ids \in NewGameIds :
           IncrementalComputeOn(new_game_ids,
                                OrderById(GamesIn(game, new_game_ids)))

Next == RatingEngineFullRecompute \/ RatingEngineIncrementalCompute

Spec == Init /\ [][Next]_vars

(***************************************************************************)
(* The passes of rating_engine.py when the store does not keep the order   *)
(* it was asked for                                                        *)
(***************************************************************************)
\* a pass is started at most this many times
MaxUnorderedPasses == 1

\* the rows in any order
Orders(rows) ==
    {order \in [1..Cardinality(rows) -> rows] :
        \A i, j \in 1..Cardinality(rows) : order[i] = order[j] => i = j}

UnorderedFullRecompute ==
    /\ run.passes < MaxUnorderedPasses
    /\ \E games \in Orders(game) : FullRecomputeOn(games)

UnorderedIncrementalCompute ==
    /\ run.passes < MaxUnorderedPasses
    /\ \E new_game_ids \in NewGameIds :
           \E games \in Orders(GamesIn(game, new_game_ids)) :
               IncrementalComputeOn(new_game_ids, games)

NextUnordered == UnorderedFullRecompute \/ UnorderedIncrementalCompute

SpecUnordered == Init /\ [][NextUnordered]_vars

(***************************************************************************)
(* The callback "recompute_rating" of the webhook, served by invocations   *)
(* of handle_callback_query that share the store; an invocation takes a    *)
(* step at each call of the API                                            *)
(***************************************************************************)
At(h, pc) == handlers[h].pc = pc

Goes(h, pc) ==
    handlers' = [handlers EXCEPT ![h] = [handlers[h] EXCEPT !.pc = pc]]

Returns(h, success) ==
    handlers' = [handlers EXCEPT ![h] =
                    [pc |-> "done", games |-> handlers[h].games,
                     rating_history_records |-> <<>>, success |-> success]]

\* elif data == "recompute_rating": full_recompute(api) is entered
CallbackRecompute(h) ==
    /\ At(h, "idle")
    /\ Goes(h, "delete")
    /\ UNCHANGED <<store_vars, run, game_vars, frame,
                 bot_vars, sync_vars>>

\* api.delete('player_rating_history', id='gte.0') inside try / except: pass
DeleteHistory(h) ==
    /\ At(h, "delete")
    /\ \E delete_raises \in BOOLEAN :
           player_rating_history' = Deleted(player_rating_history, delete_raises)
    /\ Goes(h, "get")
    /\ UNCHANGED <<game, game_player, run, game_vars, frame,
                 bot_vars, sync_vars>>

\* the loop is over; the records wait for api.post
Computed(h, games, end) ==
    IF end.rating_history_records = <<>> THEN Returns(h, TRUE)
    ELSE handlers' = [handlers EXCEPT ![h] =
             [pc |-> "post",
              games |-> Materialize([n \in 1..Len(games) |-> games[n].id]),
              rating_history_records |-> end.rating_history_records,
              success |-> FALSE]]

\* the tables are read; the loop runs from the empty map
Fetched(h, games) ==
    IF games = <<>> THEN Returns(h, TRUE)
    ELSE Computed(h, games, GameLoop(LoopStart(<<>>), games, game_player))

\* api.get of game, game_player and role, and the loop over the games
GetGames(h) ==
    /\ At(h, "get")
    /\ \/ Returns(h, FALSE)
       \/ Fetched(h, OrderById(game))
    /\ UNCHANGED <<store_vars, run, game_vars, frame,
                 bot_vars, sync_vars>>

\* api.post('player_rating_history', batch) and the return
PostHistory(h) ==
    /\ At(h, "post")
    /\ \/ /\ Returns(h, FALSE)
          /\ UNCHANGED player_rating_history
       \/ /\ player_rating_history' =
                 player_rating_history \o handlers[h].rating_history_records
          /\ Returns(h, TRUE)
    /\ UNCHANGED <<game, game_player, run, game_vars, frame,
                 bot_vars, sync_vars>>

NextCallbacks ==
    \E h \in Handlers :
        \/ CallbackRecompute(h)
        \/ DeleteHistory(h)
        \/ GetGames(h)
        \/ PostHistory(h)

SpecCallbacks == Init /\ [][NextCallbacks]_vars

(***************************************************************************)
(* Properties                                                              *)
(***************************************************************************)
\* x as a whole number of units of 10^-d, for the exact sums below
Fixed(x, d) ==
    IF x.e + d >= 0 THEN x.m * 10^(x.e + d) ELSE TDiv(x.m, 10^(-(x.e + d)))

RECURSIVE SumInts(_)
SumInts(seq) == IF seq = <<>> THEN 0 ELSE Head(seq) + SumInts(Tail(seq))

Completed(engine) == outcome.engine = engine /\ outcome.error = Zero

\* C1 (zero-sum closure): when process_game of telegram_webhook.py completes
\* on a game of ten distinct players, the final rating changes
\* (after.rating - before.rating) of the ten players sum to zero up to
\* rounding.  The sum is taken exactly, in units of 10^-5.  Each of the ten
\* final ratings is rounded once, at `after.rating - correction', so the sum
\* is off by at most ten units in the last place of a rating; with the eight
\* digits carried here that unit is 10^-4 for a rating between 1000 and
\* 10000 (with binary64 it is 2.3 * 10^-13), hence the tolerance of eleven
\* such units.
ZeroSumClosure ==
    Completed("webhook") =>
        AbsInt(SumInts([i \in 1..Len(outcome.results) |->
                   Fixed(outcome.results[i].after.rating, 5)
                   - Fixed(outcome.results[i].before.rating, 5)])) <= 11 * 10

\* a completed game whose tentative changes did not sum to zero, so that
\* the correction moved every rating
ZeroSumClosureWitness ==
    /\ Completed("webhook")
    /\ Len(outcome.results) = PlayersPerGame
    /\ Gt[Abs[outcome.correction], One]
    /\ \E i \in 1..Len(outcome.results) :
           outcome.results[i].after.rating # outcome.results[i].before.rating

OtherTeam(call) ==
    {j \in 1..Len(players_data) : players_data[j].won # call.won}

\* C2 (weight symmetry): for every split of the ten players into k winners
\* and 10 - k losers with 1 <= k <= 9, every pseudo-match of a player
\* carries the weight WEIGHT_MULTIPLIER / (size of the other team), and the
\* weights of one player's pseudo-matches sum to WEIGHT_MULTIPLIER, on
\* either side of the split.  The sum is taken exactly, in units of 10^-8;
\* the quotient is rounded once, so nine of them are off by less than ten
\* units.
WeightSymmetry ==
    outcome.engine = "webhook" =>
        \A c \in 1..Len(outcome.calls) :
            LET call == outcome.calls[c]
                size == Cardinality(OtherTeam(call))
            IN size >= 1 =>
                /\ Len(call.weights) = size
                /\ \A n \in 1..size :
                       call.weights[n] = Div[WEIGHT_MULTIPLIER, FromInt(size)]
                /\ AbsInt(SumInts([n \in 1..size |-> Fixed(call.weights[n], 8)])
                          - Fixed(WEIGHT_MULTIPLIER, 8)) < 10

\* a completed game of three winners and seven losers: a winner's seven
\* pseudo-matches weigh 0.25 each, a loser's three 0.58333333 each
WeightSymmetryWitness ==
    /\ Completed("webhook")
    /\ Len(outcome.calls) = PlayersPerGame
    /\ \E c, d \in 1..Len(outcome.calls) :
           /\ outcome.calls[c].won /\ Len(outcome.calls[c].weights) = 7
           /\ ~outcome.calls[d].won /\ Len(outcome.calls[d].weights) = 3

OpposingOnly(call) ==
    /\ {call.opponents[n] : n \in 1..Len(call.opponents)}
           = {players_data[j].player_id : j \in OtherTeam(call)}
    /\ Len(call.opponents) = Cardinality(OtherTeam(call))
    /\ \A n \in 1..Len(call.game_results) :
           call.game_results[n] = IF call.won THEN One ELSE Zero

EveryOtherPlayer(call) ==
    /\ {call.opponents[n] : n \in 1..Len(call.opponents)}
           = {players_data[j].player_id : j \in 1..Len(players_data)}
                 \ {call.player_id}
    /\ Len(call.opponents) = Len(players_data) - 1
    /\ \A n \in 1..Len(call.opponents) :
           LET opponent == CHOOSE j \in 1..Len(players_data) :
                               players_data[j].player_id = call.opponents[n]
           IN call.game_results[n] =
                  IF players_data[opponent].won = call.won THEN HalfF
                  ELSE IF call.won THEN One ELSE Zero

\* C3 as stated (opposing team only): whichever process_game plays the
\* game, the opponents handed to update_rating for a player are exactly the
\* players whose won flag differs from the player's, with result 1.0 for a
\* winner and 0.0 for a loser.
OpposingTeamOnlyEverywhere ==
    outcome.engine # "none" =>
        \A c \in 1..Len(outcome.calls) : OpposingOnly(outcome.calls[c])

\* C3 (opposing team only), amended: process_game of telegram_webhook.py
\* hands update_rating exactly the players whose won flag differs from the
\* player's, with result 1.0 for a winner and 0.0 for a loser; process_game
\* of rating_engine.py hands it all nine other players, with 0.5 against a
\* player of the same won flag and 1.0 or 0.0 against the others.
OpposingTeamOnly ==
    /\ outcome.engine = "webhook" =>
           \A c \in 1..Len(outcome.calls) : OpposingOnly(outcome.calls[c])
    /\ outcome.engine = "rating_engine" =>
           \A c \in 1..Len(outcome.calls) : EveryOtherPlayer(outcome.calls[c])

\* a completed game of telegram_webhook.py with teammates on both sides
OpposingTeamOnlyWitness ==
    /\ Completed("webhook")
    /\ \E c \in 1..Len(outcome.calls) :
           /\ outcome.calls[c].won
           /\ Len(outcome.calls[c].opponents) = 6
           /\ outcome.calls[c].game_results[1] = One

\* the pass that ended last, if any
Ran(kind) == run.kind = kind

RanAny == run.kind # "none"

\* the number of game_player rows of the game
PlayerCount(game_id) == Len(PlayersInGame(game_player, game_id))

AppliedGames == {run.applied[n].game_id : n \in 1..Len(run.applied)}

RecordedGames == {run.records[n].game_id : n \in 1..Len(run.records)}

SuppliedGames == {run.supplied[n] : n \in 1..Len(run.supplied)}

\* C4 (malformed game): in a pass of full_recompute or incremental_compute,
\* every game the loop met whose number of player rows is not 10 got a
\* diagnostic line, was not handed to process_game (so that the rating map
\* stayed as it was), has no history record, and every game of ten players
\* the loop met was still processed.
MalformedGameRejected ==
    RanAny =>
        \A g \in SuppliedGames :
            IF PlayerCount(g) # PlayersPerGame
            THEN /\ g \in run.warnings \cup run.errors
                 /\ g \notin AppliedGames
                 /\ g \notin RecordedGames
            ELSE g \in AppliedGames

\* C5 (chronological fold): in a pass, the games are met in strictly
\* increasing order of id, the first game handed to process_game is computed
\* from the map the pass started with, and every later one from the map the
\* game before it left.
ChronologicalFold ==
    RanAny =>
        /\ \A i, j \in 1..Len(run.supplied) :
               i < j => run.supplied[i] < run.supplied[j]
        /\ \A i, j \in 1..Len(run.applied) :
               i < j => run.applied[i].game_id < run.applied[j].game_id
        /\ \A n \in 1..Len(run.applied) :
               run.applied[n].before =
                   IF n = 1 THEN run.seed ELSE run.applied[n - 1].after

\* a pass of incremental_compute, asked for games 3 and 1 in this order, has
\* applied game 1 and then game 3, and game 1 changed the map
ChronologicalFoldWitness ==
    /\ Ran("incremental_compute")
    /\ run.new_game_ids = <<3, 1>>
    /\ Len(run.applied) = 2
    /\ run.errors = {}
    /\ run.applied[1].after # run.applied[1].before
    /\ run.applied[2].before = run.applied[1].after

\* C6 (full recompute from scratch): after a pass of full_recompute that
\* returned True, the first game was computed from the empty map and the
\* table player_rating_history holds the records of that pass and no other.
FullRecomputeDiscardsHistory ==
    (Ran("full_recompute") /\ run.returned) =>
        /\ run.seed = <<>>
        /\ player_rating_history = run.records

\* C7 (incremental recompute replays new games only): a pass of
\* incremental_compute hands no game to process_game, and builds no record
\* for a game, that had history rows when the pass began.
IncrementalNeverReplays ==
    Ran("incremental_compute") =>
        /\ AppliedGames \cap run.reflected = {}
        /\ RecordedGames \cap run.reflected = {}

\* the invocations that are inside full_recompute
InFlight == {h \in Handlers : handlers[h].pc \in {"delete", "get", "post"}}

\* C8 (serialized recompute): at most one invocation of the callback
\* "recompute_rating" is inside full_recompute at any time.
SerializedRecompute == Cardinality(InFlight) <= 1

\* C9 (per-game failure atomicity): when process_game raised for a game, the
\* game has no history record and the rating map holds, for every player,
\* what it held before the game; a player who was not in the map before
\* holds the default rating.
FailedGameAtomic ==
    \A n \in 1..Len(run.applied) :
        IsErr(run.applied[n].error) =>
            /\ run.applied[n].game_id \notin RecordedGames
            /\ \A p \in DOMAIN run.applied[n].after :
                   run.applied[n].after[p] =
                       rating_engine_RatingOrDefault(run.applied[n].before, p)

\* C10 (ordering violation): a pass whose loop met the games in an order
\* that is not ascending handed no game to process_game and did not
\* return True.
OrderingViolationRejected ==
    (RanAny /\ \E i, j \in 1..Len(run.supplied) :
                   i < j /\ run.supplied[i] > run.supplied[j]) =>
        /\ run.applied = <<>>
        /\ ~run.returned

\* the game played has ten players who all carry the same won flag
AllOneOutcome ==
    /\ outcome.engine # "none"
    /\ Len(players_data) = PlayersPerGame
    /\ \A i \in 1..Len(players_data) : players_data[i].won = players_data[1].won

\* C11 (all-one-outcome game): process_game of either engine does not raise
\* on a game of ten players with one won flag, and each of the ten players
\* gets the update of a player without games: rating and sigma as before,
\* rd greater than before.
AllOneOutcomeNoGamesUpdate ==
    AllOneOutcome =>
        /\ outcome.error = Zero
        /\ Len(outcome.results) = PlayersPerGame
        /\ \A i \in 1..Len(outcome.results) :
               /\ outcome.results[i].after.rating = outcome.results[i].before.rating
               /\ outcome.results[i].after.sigma = outcome.results[i].before.sigma
               /\ Gt[outcome.results[i].after.rd, outcome.results[i].before.rd]

(***************************************************************************)
(* SpecSolver: compute_new_sigma, one loop round at a time                 *)
(***************************************************************************)
\* the arguments of compute_new_sigma: TAU of the module called and phi,
\* sigma, v, delta
SolverArguments ==
    {[tau |-> tau, phi |-> phi, sigma |-> INITIAL_SIGMA, v |-> v, delta |-> delta] :
        tau \in {TAU, rating_engine_TAU},
        phi \in {Float(50000000, -8)},
        v \in {Float(10000000, -8), Float(25000000, -7)},
        delta \in {Zero, Float(13000000, -7), Float(10000000, -6)}}
    \cup {[tau |-> TAU, phi |-> Float(10000000, -13), sigma |-> One,
           v |-> Float(10000000, -9), delta |-> Float(10000000, -11)],
          [tau |-> TAU, phi |-> One, sigma |-> Zero, v |-> One, delta |-> One]}

\* the frame of compute_new_sigma after "A = a": k counts the bracket search,
\* n the rounds of the second loop
Entered(args, a) ==
    [pc |-> "bracket", tau |-> args.tau, phi |-> args.phi, sigma |-> args.sigma,
     v |-> args.v, delta |-> args.delta, a |-> a, k |-> 1,
     A |-> a, fA |-> Zero, B |-> Zero, fB |-> Zero, n |-> 0, value |-> Zero]

\* the frames of compute_new_sigma
Frames ==
    [pc : {"bracket", "iterate", "returned", "raised"}, tau : Floats,
     phi : Floats, sigma : Floats, v : Floats, delta : Floats, a : Floats,
     k : Int, A : Floats, fA : Floats, B : Floats, fB : Floats, n : Int,
     value : Floats]

f(c, x) == SigmaF[x, c.a, c.tau, c.phi, c.v, c.delta]

\* the exception that ends the call, if one of the values is one
Exception(values) ==
    IF \E i \in 1..Len(values) : IsErr(values[i])
    THEN values[MinOf({i \in 1..Len(values) : IsErr(values[i])})]
    ELSE Zero

Raise[c \in Frames, err \in Floats] == [c EXCEPT !.pc = "raised", !.value = err]

Checked[c \in Frames] ==
    IF IsErr(Exception(<<c.A, c.B, c.fA, c.fB>>))
    THEN Raise[c, Exception(<<c.A, c.B, c.fA, c.fB>>)]
    ELSE c

\* fA = f(A); fB = f(B), and the second loop is entered
Bracketed[c \in Frames, B \in Floats] ==
    Checked[[c EXCEPT !.pc = "iterate", !.B = B, !.fA = f(c, c.A), !.fB = f(c, B)]]

InitSolver ==
    /\ frame \in {Checked[Entered(args, Ln[Mul[args.sigma, args.sigma]])] :
                     args \in SolverArguments}
    /\ current_ratings = <<>>
    /\ players_data = <<>>
    /\ outcome = NoOutcome
    /\ game = {}
    /\ game_player = <<>>
    /\ player_rating_history = <<>>
    /\ run = NoRun
    /\ handlers = NoHandlers
    /\ BotIdle
    /\ SyncIdle

Others == <<game_vars, store_vars, run, handlers, bot_vars, sync_vars>>

\* if delta * delta > phi * phi + v: B = math.log(delta * delta - phi * phi - v)
UpperEndDirect ==
    /\ frame.pc = "bracket"
    /\ frame.k = 1
    /\ Gt[Mul[frame.delta, frame.delta], Add[Mul[frame.phi, frame.phi], frame.v]]
    /\ frame' = Bracketed[frame,
                    Ln[Sub[Sub[Mul[frame.delta, frame.delta],
                               Mul[frame.phi, frame.phi]], frame.v]]]
    /\ UNCHANGED Others

BracketTested[c \in Frames, x \in Floats, fx \in Floats] ==
    CASE IsErr(fx) -> Raise[c, fx]
      [] Sign(fx) < 0 -> [c EXCEPT !.k = c.k + 1]
      [] OTHER -> Bracketed[c, x]

BracketAgain[c \in Frames, x \in Floats] == BracketTested[c, x, f(c, x)]

\* the search going on while f is not below zero: "while f(a - k * TAU) >= 0"
BracketSearchWhileAbove ==
    /\ frame.pc = "bracket"
    /\ ~Gt[Mul[frame.delta, frame.delta], Add[Mul[frame.phi, frame.phi], frame.v]]
    /\ frame.k <= MaxBracketSteps
    /\ frame' = IF Sign(f(frame, Sub[frame.a, Mul[FromInt(frame.k), frame.tau]])) < 0
                THEN Bracketed[frame, Sub[frame.a, Mul[FromInt(frame.k), frame.tau]]]
                ELSE [frame EXCEPT !.k = frame.k + 1]
    /\ UNCHANGED Others

\* one test of "while f(a - k * TAU) < 0": k += 1, or B = a - k * TAU
BracketSearch ==
    /\ frame.pc = "bracket"
    /\ ~Gt[Mul[frame.delta, frame.delta], Add[Mul[frame.phi, frame.phi], frame.v]]
    /\ frame.k <= MaxBracketSteps
    /\ frame' = BracketAgain[frame, Sub[frame.a, Mul[FromInt(frame.k), frame.tau]]]
    /\ UNCHANGED Others

Moved[c \in Frames, C \in Floats, fC \in Floats] ==
    IF ~IsErr(fC) /\ Sign(Mul[fC, c.fB]) < 0
    THEN [c EXCEPT !.A = c.B, !.fA = c.fB, !.B = C, !.fB = fC, !.n = c.n + 1]
    ELSE [c EXCEPT !.fA = Div[c.fA, Two], !.B = C, !.fB = fC, !.n = c.n + 1]

Round[c \in Frames, C \in Floats] == Checked[Moved[c, C, f(c, C)]]

\* one round of "while abs(B - A) > EPSILON"
IllinoisRound ==
    /\ frame.pc = "iterate"
    /\ Gt[Abs[Sub[frame.B, frame.A]], EPSILON]
    /\ frame.n < MaxSolverRounds
    /\ frame' = Round[frame, Add[frame.A, Div[Mul[Sub[frame.A, frame.B], frame.fA],
                                             Sub[frame.fB, frame.fA]]]]
    /\ UNCHANGED Others

Returned[c \in Frames, value \in Floats] ==
    IF IsErr(value) THEN Raise[c, value]
    ELSE [c EXCEPT !.pc = "returned", !.value = value]

\* the loop has ended: return math.exp(A / 2.0)
ReturnSigma ==
    /\ frame.pc = "iterate"
    /\ ~Gt[Abs[Sub[frame.B, frame.A]], EPSILON]
    /\ frame' = Returned[frame, Exp[Div[frame.A, Two]]]
    /\ UNCHANGED Others

NextSolver == UpperEndDirect \/ BracketSearch \/ IllinoisRound \/ ReturnSigma

SpecSolver == InitSolver /\ [][NextSolver]_vars /\ WF_vars(NextSolver)

BothTeamsPlayed ==
    /\ outcome.engine # "none"
    /\ outcome.error = Zero
    /\ Len(players_data) = PlayersPerGame
    /\ \E i \in 1..Len(players_data) : players_data[i].won
    /\ \E i \in 1..Len(players_data) : ~players_data[i].won

\* the rating of result i moved in the direction of the outcome of seat i
MovedWithOutcome(i) ==
    IF players_data[i].won
    THEN Gt[outcome.results[i].after.rating, outcome.results[i].before.rating]
    ELSE Lt[outcome.results[i].after.rating, outcome.results[i].before.rating]

\* C13 (direction of update): in every processed game with both teams
\* non-empty, each winner's rating_after is above the rating_before and each
\* loser's rating_after is below it; for telegram_webhook.py the rating_after
\* is the one after the zero-sum correction.
DirectionOfUpdate ==
    BothTeamsPlayed => \A i \in 1..Len(outcome.results) : MovedWithOutcome(i)

\* the ten players of the game played had one and the same prior triple
IdenticalPriors ==
    /\ BothTeamsPlayed
    /\ \A i \in 1..Len(outcome.results) :
           /\ outcome.results[i].before.rating = outcome.results[1].before.rating
           /\ outcome.results[i].before.rd = outcome.results[1].before.rd
           /\ outcome.results[i].before.sigma = outcome.results[1].before.sigma

\* after.rating - before.rating of result i
RatingDelta(i) ==
    Sub[outcome.results[i].after.rating, outcome.results[i].before.rating]

\* C14 (scenario A symmetry): when the ten players of a game have identical
\* prior triples, the winners all get one rating delta, which is positive,
\* and the losers all get one rating delta, which is negative, wherever they
\* sit in the player list.
ScenarioASymmetry ==
    IdenticalPriors =>
        \A i, j \in 1..Len(outcome.results) :
            /\ MovedWithOutcome(i)
            /\ players_data[i].won = players_data[j].won
                   => RatingDelta(i) = RatingDelta(j)

\* C15 (uncertainty decay under information), as stated: every call of
\* update_rating with opponents returns an rd below the rd it was given.
\* The calls are those of a processed game with both teams non-empty.
UncertaintyDecay ==
    BothTeamsPlayed =>
        \A i \in 1..Len(outcome.results) :
            Lt[outcome.results[i].after.rd, outcome.results[i].before.rd]

\* the rd of a player whose deviation is inflated by the volatility sigma,
\* sqrt(phi * phi + sigma * sigma) on the public scale
InflatedRd(player, sigma) ==
    RatingDecayScaled(to_glicko2_scale(player), sigma).rd

\* C15, amended: every call of update_rating with opponents returns an rd
\* below the prior rd inflated by the volatility that the call returns; the
\* rd may lie above the rd the call was given.
UncertaintyBelowInflated ==
    BothTeamsPlayed =>
        \A i \in 1..Len(outcome.results) :
            Lt[outcome.results[i].after.rd,
               InflatedRd(outcome.results[i].before, outcome.results[i].after.sigma)]

\* a player left a processed game with an rd that is not below the prior rd
UncertaintyBelowInflatedWitness ==
    /\ BothTeamsPlayed
    /\ \E i \in 1..Len(outcome.results) :
           /\ ~Lt[outcome.results[i].after.rd, outcome.results[i].before.rd]
           /\ Lt[outcome.results[i].after.rd,
                 InflatedRd(outcome.results[i].before, outcome.results[i].after.sigma)]

(***************************************************************************)
(* SpecRating: update_rating without opponents and the scale conversions,  *)
(* called on one player                                                    *)
(***************************************************************************)
\* the players the functions are called on
RatingCatalogue ==
    {[player_id |-> 7, rating |-> rating, rd |-> rd, sigma |-> sigma] :
        rating \in {Float(73500000, -5), Float(13507700, -4), INITIAL_RATING,
                    Float(17000000, -4), Float(22005000, -4)},
        rd \in {Float(10000000, -6), Float(60000000, -6), INITIAL_RD,
                rating_engine_INITIAL_RD},
        sigma \in {INITIAL_SIGMA, Float(30000000, -9)}}

InitRating ==
    /\ frame \in {[pc |-> "rating", player |-> p] : p \in RatingCatalogue}
    /\ current_ratings = <<>>
    /\ players_data = <<>>
    /\ outcome = NoOutcome
    /\ game = {}
    /\ game_player = <<>>
    /\ player_rating_history = <<>>
    /\ run = NoRun
    /\ handlers = NoHandlers
    /\ BotIdle
    /\ SyncIdle

\* return PlayerRating(player.player_id, rating, rd, sigma)
Returning(player, r) ==
    [player_id |-> player.player_id, rating |-> r.rating, rd |-> r.rd,
     sigma |-> r.sigma]

Updated(module, player, after) ==
    /\ frame' = [pc |-> "updated", module |-> module, player |-> player,
                 after |-> Returning(player, after)]
    /\ UNCHANGED Others

\* update_rating(player, [], [], []) of telegram_webhook.py
UpdateRatingNoOpponents ==
    /\ frame.pc = "rating"
    /\ Updated("telegram_webhook", frame.player,
               update_rating(frame.player, <<>>, <<>>, <<>>))

\* update_rating(player, [], []) of rating_engine.py
RatingEngineUpdateRatingNoOpponents ==
    /\ frame.pc = "rating"
    /\ Updated("rating_engine", frame.player,
               rating_engine_update_rating(frame.player, <<>>, <<>>))

Converted(player, s) ==
    /\ frame' = [pc |-> "converted", player |-> player, scaled |-> s,
                 back |-> from_glicko2_scale(s.mu, s.phi, player.sigma)]
    /\ UNCHANGED Others

\* PlayerRating.from_glicko2_scale(*player.to_glicko2_scale(), player.sigma)
ScaleRoundTrip ==
    /\ frame.pc = "rating"
    /\ Converted(frame.player, to_glicko2_scale(frame.player))

NextRating ==
    UpdateRatingNoOpponents \/ RatingEngineUpdateRatingNoOpponents \/ ScaleRoundTrip

SpecRating == InitRating /\ [][NextRating]_vars

\* what the eight digits carried here lose in a conversion to the Glicko-2
\* scale and back: ten units in the last place of a rating between 1000 and
\* 10000
RoundingTolerance == Float(10000000, -10)

Near(x, y) == Lt[Abs[Sub[x, y]], RoundingTolerance]

Positive(x) == ~IsErr(x) /\ Sign(x) > 0

\* the rating map the last pass started from holds positive deviations and
\* volatilities only
PositiveSeed ==
    \A p \in DOMAIN run.seed :
        Positive(run.seed[p].rd) /\ Positive(run.seed[p].sigma)

\* C17 (positivity): when the rating map a pass starts from holds positive
\* deviations and volatilities only, every history record of the pass has a
\* positive rd_before, rd_after, sigma_before and sigma_after, and after each
\* game of the pass every player of the rating map has a positive rd and a
\* positive sigma.
PositivityInvariant ==
    (RanAny /\ PositiveSeed) =>
        /\ \A n \in 1..Len(run.records) :
               /\ Positive(run.records[n].rd_before)
               /\ Positive(run.records[n].rd_after)
               /\ Positive(run.records[n].sigma_before)
               /\ Positive(run.records[n].sigma_after)
        /\ \A k \in 1..Len(run.applied) :
               \A p \in DOMAIN run.applied[k].after :
                   /\ Positive(run.applied[k].after[p].rd)
                   /\ Positive(run.applied[k].after[p].sigma)

\* a pass started from a map with players in it, all positive, and processed
\* two games and more that changed the map and left records
PositivityInvariantWitness ==
    /\ RanAny
    /\ PositiveSeed
    /\ DOMAIN run.seed # {}
    /\ Len(run.records) >= 2 * PlayersPerGame
    /\ \E k \in 1..Len(run.applied) :
           /\ run.applied[k].error = Zero
           /\ run.applied[k].after # run.applied[k].before

\* the records of the last pass that belong to game g
RecordsOf(g) == {n \in 1..Len(run.records) : run.records[n].game_id = g}

\* process_game returned for game g in the last pass
ProcessedGames ==
    {run.applied[k].game_id :
        k \in {n \in 1..Len(run.applied) : run.applied[n].error = Zero}}

\* C18 (history records): a pass of full_recompute or incremental_compute
\* emits, for every game that process_game returned for, exactly one record
\* for each of its player rows, ten in all; it emits no record for a game
\* that was skipped or whose processing raised; and no two of its records
\* have the same game and the same player.
HistoryRecordsExact ==
    RanAny =>
        /\ \A g \in ProcessedGames :
               /\ Cardinality(RecordsOf(g)) = PlayersPerGame
               /\ \A i \in 1..PlayerCount(g) :
                      Cardinality({n \in RecordsOf(g) :
                          run.records[n].player_id =
                              PlayersInGame(game_player, g)[i].player_id}) = 1
        /\ \A n \in 1..Len(run.records) :
               run.records[n].game_id \in ProcessedGames
        /\ \A n, m \in 1..Len(run.records) :
               (/\ run.records[n].game_id = run.records[m].game_id
                /\ run.records[n].player_id = run.records[m].player_id) => n = m

\* a pass processed two games, skipped one, and emitted records
HistoryRecordsExactWitness ==
    /\ RanAny
    /\ Cardinality(ProcessedGames) = 2
    /\ run.warnings # {}
    /\ Len(run.records) = 2 * PlayersPerGame

\* a pass in which the processing of a game raised
HistoryRecordsFailedGame ==
    /\ RanAny
    /\ run.errors # {}
    /\ \E k \in 1..Len(run.applied) :
           IsErr(run.applied[k].error) /\ RecordsOf(run.applied[k].game_id) = {}

(***************************************************************************)
(* The passes of rating_engine.py over a store of three well-formed games  *)
(***************************************************************************)
\* ten rows of game_player for a game: the players from 1 on, one left out
GameRowsWithout(game_id, absent) ==
    [i \in 1..PlayersPerGame |->
        [game_id |-> game_id,
         player_id |-> IF i < absent THEN i ELSE i + 1,
         role_id |-> SeatRole(i)]]

\* game 1 was played by the players 2 to 11, game 2 by the players 1 to
\* 10, game 3 by all but one of the players 1 to 11
ThreeGamesCatalogue ==
    {GameRows(1, 2, PlayersPerGame) \o GameRows(2, 1, PlayersPerGame)
         \o GameRowsWithout(3, absent) : absent \in {4, 5}}

\* rows of game 1 that an earlier pass left in the table for its players
StoredHistoryOfGame1 == [i \in 1..PlayersPerGame |-> StoredRecord(i + 1)]

InitLazy ==
    /\ game = GameTable
    /\ game_player \in ThreeGamesCatalogue
    /\ player_rating_history \in {<<>>, StoredHistoryOfGame1}
    /\ run = NoRun
    /\ handlers = NoHandlers
    /\ BotIdle
    /\ SyncIdle
    /\ frame = NoFrame
    /\ current_ratings = <<>>
    /\ players_data = <<>>
    /\ outcome = NoOutcome

SpecLazy == InitLazy /\ [][Next]_vars


\* the pass emitted no record for the player before record n
FirstRecord(n) ==
    \A k \in 1..(n - 1) : run.records[k].player_id # run.records[n].player_id

\* record n says that the game met the player with the dataclass defaults
DefaultBefore(n) ==
    /\ run.records[n].rating_before = INITIAL_RATING
    /\ run.records[n].rd_before = rating_engine_INITIAL_RD
    /\ run.records[n].sigma_before = INITIAL_SIGMA

\* C19 (lazy default): in a pass of rating_engine.py, the first record of a
\* player who was not in the map the loop started from has the default
\* triple (1500, INITIAL_RD, 0.06) as rating_before, rd_before and
\* sigma_before; and after process_game returned for a game, every player
\* of the game is a key of the map.
LazyDefault ==
    RanAny =>
        /\ \A n \in 1..Len(run.records) :
               (FirstRecord(n) /\ run.records[n].player_id \notin DOMAIN run.seed)
                   => DefaultBefore(n)
        /\ \A n \in 1..Len(run.applied) :
               run.applied[n].error = Zero =>
                   \A i \in 1..PlayerCount(run.applied[n].game_id) :
                       PlayersInGame(game_player, run.applied[n].game_id)[i].player_id
                           \in DOMAIN run.applied[n].after

\* a pass in which an unknown player got the default triple in the first
\* record and a known player did not
LazyDefaultMet ==
    /\ RanAny
    /\ \E n \in 1..Len(run.records) :
           /\ FirstRecord(n)
           /\ run.records[n].player_id \notin DOMAIN run.seed
           /\ DefaultBefore(n)
    /\ \E n \in 1..Len(run.records) : ~FirstRecord(n) /\ ~DefaultBefore(n)

\* C20 (scale round-trip), as stated: to_glicko2_scale followed by
\* from_glicko2_scale returns the rating and the rd it started from, bit for
\* bit, and sigma as it was passed.
ScaleRoundTripExact ==
    frame.pc = "converted" =>
        /\ frame.back.rating = frame.player.rating
        /\ frame.back.rd = frame.player.rd
        /\ frame.back.sigma = frame.player.sigma

\* C20, amended: to_glicko2_scale followed by from_glicko2_scale returns the
\* rating and the rd it started from up to rounding, and sigma as it was
\* passed.
ScaleRoundTripRounded ==
    frame.pc = "converted" =>
        /\ Near(frame.back.rating, frame.player.rating)
        /\ Near(frame.back.rd, frame.player.rd)
        /\ frame.back.sigma = frame.player.sigma

\* a conversion to the Glicko-2 scale and back that did not return the rd or
\* the rating it started from
ScaleRoundTripRoundedWitness ==
    /\ frame.pc = "converted"
    /\ frame.back.rd # frame.player.rd \/ frame.back.rating # frame.player.rating
    /\ Near(frame.back.rating, frame.player.rating)
    /\ Near(frame.back.rd, frame.player.rd)

\* what update_rating returned in step 1 for the player at position i of the
\* game played
TentativeOf(i) == TentativeRating(outcome.calls[i], outcome.before)

\* C21 (normalization frame): in a game that process_game of
\* telegram_webhook.py completed, the final rd and sigma of every player are
\* the rd and sigma that update_rating returned for the player in step 1,
\* the final rating is the tentative rating less the correction, and the
\* rating_before of the result is the entry the map had for the player
\* before the game, or the default for a player it did not have.
NormalizationFrame ==
    Completed("webhook") =>
        \A i \in 1..Len(outcome.results) :
            /\ outcome.results[i].after.rd = TentativeOf(i).rd
            /\ outcome.results[i].after.sigma = TentativeOf(i).sigma
            /\ outcome.results[i].after.rating =
                   Sub[TentativeOf(i).rating, outcome.correction]
            /\ outcome.results[i].before =
                   RatingOrDefault(outcome.before, outcome.results[i].player_id)

\* a completed game in which the correction moved the ratings away from the
\* tentative ones, for rated and for unrated players
NormalizationFrameWitness ==
    /\ Completed("webhook")
    /\ outcome.correction # Zero
    /\ \E i \in 1..Len(outcome.results) :
           /\ outcome.results[i].player_id \in DOMAIN outcome.before
           /\ outcome.results[i].after.rating # TentativeOf(i).rating
    /\ \E i \in 1..Len(outcome.results) :
           outcome.results[i].player_id \notin DOMAIN outcome.before

(***************************************************************************)
(* compute_variance called directly                                        *)
(***************************************************************************)
\* opponents on the Glicko-2 scale: an unrated one, a rated one, and one so
\* far above every player that the expected score against it is next to 0
OpponentCatalogue ==
    {[mu |-> Zero, phi |-> Float(12952040, -7)],
     [mu |-> One, phi |-> Float(30000000, -8)],
     [mu |-> Float(60000000, -6), phi |-> Float(50000000, -9)]}

\* the weights of the micromatches of a call: none, 1.75 / 7, 1.75 / 3
WeightCatalogue == {Zero, Float(25000000, -8), Float(58333333, -8)}

\* the longest list of opponents handed to compute_variance
MaxOpponents == 2

OpponentLists ==
    UNION {[1..n -> OpponentCatalogue] : n \in 0..MaxOpponents}

VarianceArguments ==
    {[pc |-> "variance", mu |-> mu, opponents |-> opponents,
      weights |-> [j \in 1..Len(opponents) |-> weight]] :
        mu \in {Zero, Two, Float(70000000, -6)},
        opponents \in OpponentLists, weight \in WeightCatalogue}

InitVariance ==
    /\ frame \in VarianceArguments
    /\ current_ratings = <<>>
    /\ players_data = <<>>
    /\ outcome = NoOutcome
    /\ game = {}
    /\ game_player = <<>>
    /\ player_rating_history = <<>>
    /\ run = NoRun
    /\ handlers = NoHandlers
    /\ BotIdle
    /\ SyncIdle

VarianceReturned(module, args, weights, value) ==
    /\ frame' = [pc |-> "variance_returned", module |-> module, mu |-> args.mu,
                 opponents |-> args.opponents, weights |-> weights,
                 value |-> value]
    /\ UNCHANGED Others

\* compute_variance(mu, opponents, weights) of telegram_webhook.py
ComputeVariance ==
    /\ frame.pc = "variance"
    /\ VarianceReturned("webhook", frame, frame.weights,
           compute_variance(Expectations(frame.mu, frame.opponents),
                            frame.weights))

\* compute_variance(mu, opponents) of rating_engine.py
RatingEngineComputeVariance ==
    /\ frame.pc = "variance"
    /\ VarianceReturned("rating_engine", frame,
           [j \in 1..Len(frame.opponents) |-> One],
           rating_engine_compute_variance(
               Expectations(frame.mu, frame.opponents)))

NextVariance == ComputeVariance \/ RatingEngineComputeVariance

SpecVariance == InitVariance /\ [][NextVariance]_vars

\* weight * g^2 * E * (1 - E) of opponent j of the call, the weight being 1
\* in rating_engine.py
InformationOf(j) ==
    Mul[Mul[Mul[frame.weights[j], Square[g_function[frame.opponents[j].phi]]],
            e_function[frame.mu, frame.opponents[j].mu, frame.opponents[j].phi]],
        Sub[One, e_function[frame.mu, frame.opponents[j].mu,
                            frame.opponents[j].phi]]]

\* an upper and a lower estimate of v_inv, ten units of the last digit apart
InformationAtMost(limit) ==
    \A j \in 1..Len(frame.opponents) : Lt[InformationOf(j), limit]

\* C22 (degenerate variance): compute_variance raises nothing; when every
\* term weight * g^2 * E * (1 - E) of the call is zero, and when there is no
\* opponent, it returns 1e6; whatever it returns lies above 0 and at or
\* below 1e6, the latter being the inverse of EPSILON, so nothing was divided
\* by a v_inv below EPSILON; and a value below 1e6 is the inverse of the
\* sum of the terms: with one opponent value * term is 1 up to rounding.
DegenerateVariance ==
    frame.pc = "variance_returned" =>
        /\ ~IsErr(frame.value)
        /\ Gt[frame.value, Zero]
        /\ ~Gt[frame.value, LargeVariance]
        /\ (\A j \in 1..Len(frame.opponents) : InformationOf(j) = Zero)
               => frame.value = LargeVariance
        /\ InformationAtMost(Div[EPSILON, FromInt(MaxOpponents)])
               => frame.value = LargeVariance
        /\ (Len(frame.opponents) = 1 /\ ~Lt[InformationOf(1), EPSILON])
               => /\ Lt[frame.value, LargeVariance] \/ InformationOf(1) = EPSILON
                  /\ Near(Mul[frame.value, InformationOf(1)], One)

\* a call with opponents whose terms added up to less than EPSILON and were
\* not all zero, and the sentinel came back
DegenerateVarianceWitness ==
    /\ frame.pc = "variance_returned"
    /\ frame.opponents # <<>>
    /\ frame.value = LargeVariance
    /\ \E j \in 1..Len(frame.opponents) : Gt[InformationOf(j), Zero]

\* a call in which the sum was inverted
InformativeVariance ==
    /\ frame.pc = "variance_returned"
    /\ Lt[frame.value, LargeVariance]

\* the call of compute_new_sigma takes the branch that searches for B
Searching(c) == ~Gt[Mul[c.delta, c.delta], Add[Mul[c.phi, c.phi], c.v]]

\* the point a - j * TAU of the search
SearchPoint(c, j) == Sub[c.a, Mul[FromInt(j), c.tau]]

\* the second loop of the call has just been entered
BracketSet == frame.pc = "iterate" /\ frame.n = 0

\* C23 (bracket initialisation), as stated: the search for B stops at the
\* first k for which f(a - k * TAU) < 0.
BracketStopsBelowZero ==
    (BracketSet /\ Searching(frame)) =>
        /\ frame.B = SearchPoint(frame, frame.k)
        /\ Lt[f(frame, frame.B), Zero]

\* C23, amended: A starts as a = ln(sigma^2); when delta^2 > phi^2 + v, B is
\* ln(delta^2 - phi^2 - v) and no search runs; otherwise k goes up from 1
\* past every point a - k * TAU at which f is below zero, and B is
\* a - k * TAU for the first k at which f is not below zero.
BracketInitialisation ==
    /\ (frame.pc = "bracket" \/ BracketSet) =>
           /\ frame.A = frame.a
           /\ frame.a = Ln[Mul[frame.sigma, frame.sigma]]
           /\ frame.k >= 1
           /\ \A j \in 1..(frame.k - 1) : Lt[f(frame, SearchPoint(frame, j)), Zero]
    /\ (BracketSet /\ Searching(frame)) =>
           /\ frame.B = SearchPoint(frame, frame.k)
           /\ ~Lt[f(frame, frame.B), Zero]
           /\ frame.fB = f(frame, frame.B)
    /\ (BracketSet /\ ~Searching(frame)) =>
           /\ frame.k = 1
           /\ frame.B = Ln[Sub[Sub[Mul[frame.delta, frame.delta],
                                   Mul[frame.phi, frame.phi]], frame.v]]

\* a search that ended with f above zero at B
BracketInitialisationWitness ==
    /\ BracketSet
    /\ Searching(frame)
    /\ frame.B = SearchPoint(frame, frame.k)
    /\ Gt[frame.fB, Zero]

\* a call in which B was set without a search
BracketSetDirectly == BracketSet /\ ~Searching(frame)

\* record m is the next record of the pass for the player of record n
NextRecord(n, m) ==
    /\ n < m
    /\ run.records[m].player_id = run.records[n].player_id
    /\ \A k \in (n + 1)..(m - 1) :
           run.records[k].player_id # run.records[n].player_id

\* the entry of the record's player in the map the pass started from, the
\* default for a player without one, as a record shows it
StartOf(n) ==
    rating_engine_RatingOrDefault(run.seed, run.records[n].player_id)

\* the step of the loop that emitted record n
StepOf(n) ==
    CHOOSE k \in 1..Len(run.applied) :
        run.applied[k].game_id = run.records[n].game_id

\* C24 (history continuity): within a pass of rating_engine.py, the before
\* triple of a player's first record is the player's entry of the map the
\* pass started from (the snapshot, or the default for a player without an
\* entry), rounded; the before triple of every later record of the player is
\* the after triple of the player's record before it; and the after triple
\* of a record is the rounded entry of the running map, which itself is
\* handed on unrounded from game to game.
HistoryContinuity ==
    RanAny =>
        /\ \A n \in 1..Len(run.records) :
               FirstRecord(n) =>
                   /\ run.records[n].rating_before = round(StartOf(n).rating, 2)
                   /\ run.records[n].rd_before = round(StartOf(n).rd, 2)
                   /\ run.records[n].sigma_before = round(StartOf(n).sigma, 6)
        /\ \A n, m \in 1..Len(run.records) :
               NextRecord(n, m) =>
                   /\ run.records[m].rating_before = run.records[n].rating_after
                   /\ run.records[m].rd_before = run.records[n].rd_after
                   /\ run.records[m].sigma_before = run.records[n].sigma_after
        /\ \A n \in 1..Len(run.records) :
               /\ run.records[n].rating_after =
                      round(run.applied[StepOf(n)].after[run.records[n].player_id].rating, 2)
               /\ run.records[n].rd_after =
                      round(run.applied[StepOf(n)].after[run.records[n].player_id].rd, 2)
               /\ run.records[n].sigma_after =
                      round(run.applied[StepOf(n)].after[run.records[n].player_id].sigma, 6)
        /\ \A k \in 1..(Len(run.applied) - 1) :
               run.applied[k + 1].before = run.applied[k].after

\* a pass with two records of one player, the map holding more digits than
\* the records
HistoryContinuityMet ==
    /\ RanAny
    /\ \E n, m \in 1..Len(run.records) :
           /\ NextRecord(n, m)
           /\ run.applied[StepOf(n)].after[run.records[n].player_id].rating
                  # run.records[n].rating_after

\* the pairs of a game in the opposite order
Reversed(seq) == [i \in 1..Len(seq) |-> seq[Len(seq) + 1 - i]]

\* the results of the engine that played the game, had it been handed the
\* pairs in the opposite order with the same map
ReplayedReversed ==
    IF outcome.engine = "webhook"
    THEN process_game(1, Reversed(players_data), outcome.before).results
    ELSE rating_engine_process_game(1, Reversed(players_data),
                                    outcome.before).results

SameRating(x, y) ==
    /\ Near(x.rating, y.rating)
    /\ Near(x.rd, y.rd)
    /\ Near(x.sigma, y.sigma)

SameResults(results, replayed) ==
    /\ Len(replayed) = Len(results)
    /\ \A i \in 1..Len(results) :
           /\ replayed[Len(results) + 1 - i].player_id = results[i].player_id
           /\ SameRating(replayed[Len(results) + 1 - i].after, results[i].after)

\* C25 (order independence within a game): a game that process_game
\* completed gives every player the same posterior triple, up to rounding,
\* when its (player_id, won) pairs are handed over in the opposite order
\* with the same prior map.
OrderIndependence ==
    (outcome.engine # "none" /\ outcome.error = Zero) =>
        SameResults(outcome.results, ReplayedReversed)

\* the same for process_game of telegram_webhook.py alone
WebhookOrderIndependence ==
    Completed("webhook") => SameResults(outcome.results, ReplayedReversed)

\* the loop of incremental_compute over the games after the first k of
\* games, started from the snapshot that the records of head give
ContinuedFrom(head, games, k) ==
    rating_engine_GameLoop(
        LoopStart(player_current_rating(head.rating_history_records)),
        SubSeq(games, k + 1, Len(games)), game_player)

\* full_recompute on the first k games of the store, then incremental_compute
\* on the games after them
FullThenIncremental(k) ==
    ContinuedFrom(
        rating_engine_GameLoop(LoopStart(<<>>),
                               SubSeq(OrderById(game), 1, k), game_player),
        OrderById(game), k)

\* the records of the last pass for the games after the first k of the store
RecordsAfter(k) ==
    SelectSeq(run.records,
              LAMBDA r : \E n \in (k + 1)..Len(OrderById(game)) :
                             OrderById(game)[n].id = r.game_id)

\* the last pass was a full_recompute that processed every game of the store
FullPassCompleted ==
    /\ Ran("full_recompute")
    /\ run.errors = {}
    /\ run.warnings = {}
    /\ Len(run.applied) = Cardinality(game)

SameAsFullPass(k, split) ==
    /\ split.rating_history_records = RecordsAfter(k)
    /\ split.current_ratings = run.applied[Len(run.applied)].after

Participants == {players_data[i].player_id : i \in 1..Len(players_data)}

\* C27 (participant frame): whatever process_game of either module did,
\* returned or raised, the map has the entries it had for the players who
\* are not listed in the game, unchanged, and no new entry for such a player.
ParticipantFrame ==
    outcome.engine # "none" =>
        /\ DOMAIN current_ratings \ Participants = DOMAIN outcome.before \ Participants
        /\ \A p \in DOMAIN outcome.before \ Participants :
               current_ratings[p] = outcome.before[p]

\* a game was played while the map held a player who sat out, and the game
\* changed entries of the map and created others
ParticipantFrameWitness ==
    /\ outcome.engine # "none"
    /\ outcome.error = Zero
    /\ DOMAIN outcome.before \ Participants # {}
    /\ DOMAIN current_ratings # DOMAIN outcome.before
    /\ \E p \in DOMAIN outcome.before \cap Participants :
           current_ratings[p] # outcome.before[p]

\* a call that raised while the map held a player who sat out
ParticipantFrameRaised ==
    /\ outcome.engine # "none"
    /\ IsErr(outcome.error)
    /\ DOMAIN outcome.before \ Participants # {}

(***************************************************************************)
(* The Telegram bot: handler.do_POST and the handlers it calls             *)
(***************************************************************************)
\* ALLOWED_USER_IDS as the code defaults it; an id is written as its digits
ALLOWED_USERS == {"5980607330", "184403698"}

\* a user of Telegram who is not allowed
Stranger == "777"

UserIds == ALLOWED_USERS \cup {Stranger}

\* a text is the sequence of its characters
Start == <<"/", "s", "t", "a", "r", "t">>

Ann == <<"A", "n", "n">>

Texts ==
    {Start, Start \o <<" ", "x">>, <<"5", "0">>, <<" ", "7", " ">>,
     <<"5", "0", "0">>, <<"-", "1">>, <<"a", "n", "n">>, <<"b", "o", "b">>,
     <<" ">>, <<>>}

CallbackData ==
    {"change_threshold", "change_activity_period", "hidden_players_menu",
     "hide_player", "unhide_player", "view_hidden", "view_all_players",
     "clear_hidden", "back_to_main", "recompute_rating", "sync", "overwrite"}

DigitValue ==
    [c \in {"0", "1", "2", "3", "4", "5", "6", "7", "8", "9"} |->
        CASE c = "0" -> 0 [] c = "1" -> 1 [] c = "2" -> 2 [] c = "3" -> 3
          [] c = "4" -> 4 [] c = "5" -> 5 [] c = "6" -> 6 [] c = "7" -> 7
          [] c = "8" -> 8 [] c = "9" -> 9]

DigitText ==
    [d \in 0..9 |-> CHOOSE c \in DOMAIN DigitValue : DigitValue[c] = d]

LowerCase == [c \in {"A", "B"} |-> IF c = "A" THEN "a" ELSE "b"]

\* str.lower()
lower(text) ==
    [j \in 1..Len(text) |->
        IF text[j] \in DOMAIN LowerCase THEN LowerCase[text[j]] ELSE text[j]]

RECURSIVE lstrip(_)
lstrip(text) ==
    IF text # <<>> /\ Head(text) = " " THEN lstrip(Tail(text)) ELSE text

RECURSIVE rstrip(_)
rstrip(text) ==
    IF text # <<>> /\ text[Len(text)] = " "
    THEN rstrip(SubSeq(text, 1, Len(text) - 1))
    ELSE text

\* str.strip()
strip(text) == rstrip(lstrip(text))

\* str.startswith(prefix)
startswith(text, prefix) ==
    /\ Len(text) >= Len(prefix)
    /\ SubSeq(text, 1, Len(prefix)) = prefix

NotANumber == [raised |-> TRUE, value |-> 0]

RECURSIVE DigitsValue(_, _)
DigitsValue(digits, value) ==
    IF digits = <<>>
    THEN [raised |-> FALSE, value |-> value]
    ELSE IF Head(digits) \in DOMAIN DigitValue
         THEN DigitsValue(Tail(digits), 10 * value + DigitValue[Head(digits)])
         ELSE NotANumber

Signed(parsed, sign) ==
    [raised |-> parsed.raised, value |-> sign * parsed.value]

\* int(text) of the texts without an underscore: ValueError is NotANumber
IntOfStripped(text) ==
    CASE text = <<>> -> NotANumber
      [] text # <<>> /\ Head(text) \in {"-", "+"} ->
            IF Tail(text) = <<>>
            THEN NotANumber
            ELSE Signed(DigitsValue(Tail(text), 0),
                        IF Head(text) = "-" THEN 0 - 1 ELSE 1)
      [] OTHER -> DigitsValue(text, 0)

IntOf(text) == IntOfStripped(strip(text))

\* str(n) of n >= 0
RECURSIVE str(_)
str(n) ==
    IF n < 10 THEN <<DigitText[n]>> ELSE str(n \div 10) \o <<DigitText[n % 10]>>

Without(states, user_id) ==
    [u \in DOMAIN states \ {user_id} |-> states[u]]

With(states, user_id, state) ==
    [u \in DOMAIN states \cup {user_id} |->
        IF u = user_id THEN state ELSE states[u]]

\* what a handler leaves: the dict, the tables, the messages sent in order
\* and the operations it asked of the store, of the engine or of GitHub
Reply(states, settings, hidden_names, sent, did) ==
    [user_states |-> states, setting |-> settings, hidden |-> hidden_names,
     sent |-> sent, did |-> did]

Told(sent) == Reply(user_states, setting, hidden, sent, {})

handle_start_command(user_id) ==
    IF user_id \notin ALLOWED_USERS THEN Told(<<"denied">>) ELSE Told(<<"menu">>)

\* handle_threshold_input and handle_activity_period_input differ in the key
\* and in the range; success is the answer of update_supabase_setting
SettingInput(user_id, parsed, key, low, high, success) ==
    IF parsed.raised
    THEN Told(<<"not_a_number">>)
    ELSE IF parsed.value < low \/ parsed.value > high
         THEN Told(<<"out_of_range">>)
         ELSE Reply(Without(user_states, user_id),
                    IF success THEN With(setting, key, str(parsed.value))
                    ELSE setting,
                    hidden,
                    <<IF success THEN "updated" ELSE "not_updated">>,
                    {"setting"})

handle_threshold_input(user_id, text, success) ==
    SettingInput(user_id, IntOf(text), "min_games_threshold", 0, 100, success)

handle_activity_period_input(user_id, text, success) ==
    SettingInput(user_id, IntOf(text), "activity_period_days", 1, 365, success)

\* the rows of get_all_players() whose name is the text but for the case
PlayersNamed(player_name) ==
    {p \in player_rows : lower(p.name) = lower(player_name)}

HidePlayer(user_id, found, success) ==
    IF found = {}
    THEN Told(<<"not_found">>)
    ELSE LET name == (CHOOSE p \in found : TRUE).name IN
         IF name \in hidden
         THEN Reply(Without(user_states, user_id), setting, hidden,
                    <<"already_hidden">>, {})
         ELSE Reply(Without(user_states, user_id), setting,
                    IF success THEN hidden \cup {name} ELSE hidden,
                    <<IF success THEN "hidden" ELSE "not_hidden">>, {"hide"})

handle_hide_player_input(user_id, text, success) ==
    IF strip(text) = <<>>
    THEN Told(<<"empty_name">>)
    ELSE HidePlayer(user_id, PlayersNamed(strip(text)), success)

UnhidePlayer(user_id, found, success) ==
    IF found = {}
    THEN Told(<<"not_found">>)
    ELSE LET name == (CHOOSE p \in found : TRUE).name IN
         IF name \notin hidden
         THEN Reply(Without(user_states, user_id), setting, hidden,
                    <<"not_hidden">>, {})
         ELSE Reply(Without(user_states, user_id), setting,
                    IF success THEN hidden \ {name} ELSE hidden,
                    <<IF success THEN "unhidden" ELSE "not_unhidden">>,
                    {"unhide"})

handle_unhide_player_input(user_id, text, success) ==
    IF strip(text) = <<>>
    THEN Told(<<"empty_name">>)
    ELSE UnhidePlayer(user_id, PlayersNamed(strip(text)), success)

Waiting(user_id, waiting_for, message_id) ==
    Reply(With(user_states, user_id,
               IF waiting_for \in {"threshold", "activity_period"}
               THEN [waiting_for |-> waiting_for, message_id |-> message_id]
               ELSE [waiting_for |-> waiting_for]),
          setting, hidden, <<"answer", "prompt">>, {})

\* the branches of handle_callback_query after the user is validated
CallbackBranch(user_id, data, message_id, success) ==
    CASE data = "change_threshold" -> Waiting(user_id, "threshold", message_id)
      [] data = "change_activity_period" ->
            Waiting(user_id, "activity_period", message_id)
      [] data = "hidden_players_menu" -> Told(<<"answer", "hidden_menu">>)
      [] data = "hide_player" -> Waiting(user_id, "hide_player", message_id)
      [] data = "unhide_player" -> Waiting(user_id, "unhide_player", message_id)
      [] data = "view_hidden" -> Told(<<"answer", "hidden_list">>)
      [] data = "view_all_players" -> Told(<<"answer", "player_list">>)
      [] data = "clear_hidden" ->
            IF hidden = {}
            THEN Told(<<"answer", "nothing_hidden">>)
            ELSE Reply(user_states, setting, IF success THEN {} ELSE hidden,
                       <<"answer", IF success THEN "cleared" ELSE "nothing_hidden">>,
                       {"unhide"})
      [] data = "back_to_main" ->
            Told(<<"answer">> \o handle_start_command(user_id).sent)
      [] data = "recompute_rating" ->
            Reply(user_states, setting, hidden,
                  <<"answer", "recomputing", "recomputed">>, {"recompute"})
      [] OTHER ->
            Reply(user_states, setting, hidden,
                  IF success THEN <<"answer", "processing">>
                  ELSE <<"answer", "processing", "not_dispatched">>,
                  {"dispatch"})

handle_callback_query_unvalidated(user_id, data, message_id, success) ==
    CallbackBranch(user_id, data, message_id, success)

handle_callback_query(user_id, data, message_id, success) ==
    IF user_id \notin ALLOWED_USERS
    THEN Told(<<"denied">>)
    ELSE CallbackBranch(user_id, data, message_id, success)

\* the branch "message" in body of do_POST
MessageBranch(user_id, text, success) ==
    IF user_id \in DOMAIN user_states
    THEN CASE user_states[user_id].waiting_for = "threshold" ->
                 handle_threshold_input(user_id, text, success)
           [] user_states[user_id].waiting_for = "activity_period" ->
                 handle_activity_period_input(user_id, text, success)
           [] user_states[user_id].waiting_for = "hide_player" ->
                 handle_hide_player_input(user_id, text, success)
           [] user_states[user_id].waiting_for = "unhide_player" ->
                 handle_unhide_player_input(user_id, text, success)
           [] OTHER -> Told(<<>>)
    ELSE IF startswith(text, Start)
         THEN handle_start_command(user_id)
         ELSE Told(<<>>)

Replied(reply, update) ==
    /\ user_states' = reply.user_states
    /\ setting' = reply.setting
    /\ hidden' = reply.hidden
    /\ served' = [kind |-> update.kind, user_id |-> update.user_id,
                  text |-> update.text, data |-> update.data,
                  was_waiting |-> update.user_id \in DOMAIN user_states,
                  sent |-> reply.sent, did |-> reply.did]

\* do_POST with an update that holds a message
DoPostMessage ==
    \E user_id \in UserIds, text \in Texts, success \in BOOLEAN :
        /\ Replied(MessageBranch(user_id, text, success),
                   [kind |-> "message", user_id |-> user_id, text |-> text,
                    data |-> ""])
        /\ UNCHANGED <<game_vars, store_vars, run, handlers, frame, sync_vars>>

\* do_POST with an update that holds a callback_query; full_recompute finds
\* no game in the store, deletes the history and returns
DoPostCallback ==
    \E user_id \in UserIds, data \in CallbackData, success \in BOOLEAN :
        /\ Replied(handle_callback_query(user_id, data, 1, success),
                   [kind |-> "callback_query", user_id |-> user_id,
                    text |-> <<>>, data |-> data])
        /\ player_rating_history' =
               IF user_id \in ALLOWED_USERS /\ data = "recompute_rating"
               THEN <<>>
               ELSE player_rating_history
        /\ UNCHANGED <<game_vars, game, game_player, run, handlers, frame,
                       sync_vars>>

\* the webhook starts with an empty dict; the store holds one player, no
\* game and no setting
InitBot ==
    /\ user_states = <<>>
    /\ setting = <<>>
    /\ hidden = {}
    /\ served = NoUpdate
    /\ player_rows = {[id |-> 1, name |-> Ann]}
    /\ sheet = <<>>
    /\ sync = NoSync
    /\ current_ratings = <<>>
    /\ players_data = <<>>
    /\ outcome = NoOutcome
    /\ game = {}
    /\ game_player = <<>>
    /\ player_rating_history = <<>>
    /\ run = NoRun
    /\ handlers = NoHandlers
    /\ frame = NoFrame

NextBot == DoPostMessage \/ DoPostCallback

SpecBot == InitBot /\ [][NextBot]_vars

\* C28: Bot authorization. Whatever updates came before, an update from a
\* user whose id is not in ALLOWED_USERS asks for no recompute, no workflow
\* dispatch, no setting update and no hide or unhide of a player, and
\* user_states holds no entry for a user who is not in ALLOWED_USERS.
BotAuthorization ==
    /\ DOMAIN user_states \subseteq ALLOWED_USERS
    /\ served.kind # "none" /\ served.user_id \notin ALLOWED_USERS =>
           /\ served.did = {}
           /\ served.sent \in {<<>>, <<"denied">>}

\* a stranger pressed the recompute button while an allowed user is waiting
\* for an input and a setting has been changed before
BotAuthorizationWitness ==
    /\ served.kind = "callback_query"
    /\ served.user_id = Stranger
    /\ served.data = "recompute_rating"
    /\ served.sent = <<"denied">>
    /\ user_states # <<>>
    /\ setting # <<>>
    /\ hidden # {}

\* an allowed user does cause the operations
AllowedUserServed ==
    /\ served.kind # "none"
    /\ served.user_id \in ALLOWED_USERS
    /\ served.did # {}

\* C29: Return to menu. An allowed user who sends "/start" is sent the main
\* menu, also when the bot was waiting for an input of that user, and after
\* the update user_states holds no entry for that user.
ReturnToMenu ==
    served.kind = "message" /\ served.user_id \in ALLOWED_USERS
                            /\ served.text = Start =>
        /\ served.sent = <<"menu">>
        /\ served.user_id \notin DOMAIN user_states

\* the same for the users the bot was not waiting for
ReturnToMenuWhenIdle ==
    served.kind = "message" /\ served.user_id \in ALLOWED_USERS
                            /\ served.text = Start /\ ~served.was_waiting =>
        /\ served.sent = <<"menu">>
        /\ served.user_id \notin DOMAIN user_states

\* "/start" of a waiting user is read as the input: it is answered with the
\* complaint of the input handler and the entry stays
StartReadAsInput ==
    served.kind = "message" /\ served.user_id \in ALLOWED_USERS
                            /\ served.text = Start /\ served.was_waiting =>
        /\ served.sent \in {<<"not_a_number">>, <<"not_found">>}
        /\ served.user_id \in DOMAIN user_states

(***************************************************************************)
(* sync_games: the import of the spreadsheet into the store                *)
(* (src/sync_engine.py and its copy in src/api/telegram_webhook.py)        *)
(***************************************************************************)
MaxSyncRuns == 2

PlayerNames ==
    <<"p1", "p2", "p3", "p4", "p5", "p6", "p7", "p8", "p9", "p10", "p11">>

\* table role: the id of each code
RoleId == [code \in {"M", "Sh", "Mf", "D"} |->
              CASE code = "M" -> 1 [] code = "Sh" -> 2 [] code = "Mf" -> 3
                [] code = "D" -> 4]

\* the roles of a table of ten in the order of the seats
Seats == <<"D", "Mf", "Mf", "Sh", "M", "M", "M", "M", "M", "M">>

\* a column of the sheet as the loop over player_rows collects it in
\* players_data: one
\* (player_name, role_code, won) for each cell that parse_role_outcome accepts
ColumnOf(first, filled, mafia_won) ==
    [j \in 1..filled |->
        [player_name |-> PlayerNames[first + j - 1], role_code |-> Seats[j],
         won |-> (Seats[j] \in {"Mf", "D"}) = mafia_won]]

\* two game columns: a table of ten, then another table of ten, a column
\* with nine cells filled or an empty column
Sheets ==
    {<<ColumnOf(1, 10, TRUE), ColumnOf(2, 10, FALSE)>>,
     <<ColumnOf(1, 10, FALSE), ColumnOf(1, 9, TRUE)>>,
     <<ColumnOf(2, 10, TRUE), <<>>>>}

RECURSIVE determine_mafia_won(_)
determine_mafia_won(column_data) ==
    IF column_data = <<>>
    THEN FALSE
    ELSE IF Head(column_data).won /\ Head(column_data).role_code \in {"M", "Sh"}
         THEN FALSE
         ELSE IF Head(column_data).won
                   /\ Head(column_data).role_code \in {"Mf", "D"}
              THEN TRUE
              ELSE determine_mafia_won(Tail(column_data))

\* the request of a run that raises: none, a delete of clear_all_data, or for
\* the column col the look-up of the existing game, the post of the game, a
\* request of the loop over the players after done of them got their record,
\* or the post of the game_player rows
NoFailure == [at |-> "none", col |-> 0, done |-> 0]

Failures ==
    {NoFailure}
    \cup [at : {"delete_game_player", "delete_game", "delete_player"},
          col : {0}, done : {0}]
    \cup [at : {"existing", "game", "game_player"}, col : {1, 2}, done : {0}]
    \cup [at : {"players"}, col : {1, 2}, done : 0..9]

\* clear_all_data: each delete is tried, an exception is passed over
clear_all_data(s, fail) ==
    [s EXCEPT !.game_player =
                  IF fail.at = "delete_game_player" THEN @ ELSE <<>>,
              !.game = IF fail.at = "delete_game" THEN @ ELSE {},
              !.player_rows = IF fail.at = "delete_player" THEN @ ELSE {}]

\* get_or_create_player for the first done names of a column; player_cache
\* holds what the table answered in this run
RECURSIVE get_or_create_players(_, _, _)
get_or_create_players(s, column_data, done) ==
    IF done = 0
    THEN s
    ELSE LET before == get_or_create_players(s, column_data, done - 1)
             name == column_data[done].player_name
         IN  IF \E p \in before.player_rows : p.name = name
             THEN before
             ELSE [before EXCEPT
                      !.player_rows = @ \cup {[id |-> before.next_player_id,
                                               name |-> name]},
                      !.next_player_id = @ + 1]

PlayerId(s, name) == (CHOOSE p \in s.player_rows : p.name = name).id

game_player_records(s, game_id, column_data) ==
    [j \in 1..Len(column_data) |->
        [game_id |-> game_id,
         player_id |-> PlayerId(s, column_data[j].player_name),
         role_id |-> RoleId[column_data[j].role_code]]]

\* the try block of the loop: the game is posted, then the players are
\* looked up or created, then the game_player rows are posted; an exception
\* ends the block and the loop goes on with the next column
PostGame(s, col_idx, column_data, fail) ==
    IF fail.col = col_idx /\ fail.at = "game"
    THEN s
    ELSE LET game_id == s.next_game_id
             posted == [s EXCEPT
                           !.game = @ \cup
                               {[id |-> game_id,
                                 mafia_won |-> determine_mafia_won(column_data),
                                 spreadsheet_column |-> col_idx]},
                           !.next_game_id = @ + 1,
                           !.imported = @ \cup {col_idx}]
         IN  IF fail.col = col_idx /\ fail.at = "players"
             THEN get_or_create_players(posted, column_data, fail.done)
             ELSE LET known == get_or_create_players(posted, column_data,
                                                     Len(column_data))
                  IN  IF fail.col = col_idx /\ fail.at = "game_player"
                      THEN known
                      ELSE [known EXCEPT
                               !.game_player = @ \o
                                   game_player_records(known, game_id,
                                                       column_data),
                               !.games_synced = @ + 1]

\* one round of the loop over the columns
SyncColumn(s, col_idx, column_data, mode, fail) ==
    IF column_data = <<>>
    THEN s
    ELSE IF Len(column_data) # 10
         THEN [s EXCEPT !.games_skipped = @ + 1]
         ELSE IF mode = "sync" /\ fail.col = col_idx /\ fail.at = "existing"
              THEN [s EXCEPT !.success = FALSE]
              ELSE IF mode = "sync"
                        /\ \E g \in s.game : g.spreadsheet_column = col_idx
                   THEN [s EXCEPT !.games_skipped = @ + 1]
                   ELSE PostGame(s, col_idx, column_data, fail)

\* the loop from col_idx on; an exception outside the try block ends the run
RECURSIVE SyncFrom(_, _, _, _, _)
SyncFrom(s, rows, col_idx, mode, fail) ==
    IF col_idx > Len(rows) \/ ~s.success
    THEN s
    ELSE SyncFrom(SyncColumn(s, col_idx, rows[col_idx], mode, fail),
                  rows, col_idx + 1, mode, fail)

\* the store and the counters as a run finds them
SyncStart(mode) ==
    [game |-> game, game_player |-> game_player, player_rows |-> player_rows,
     next_game_id |-> sync.next_game_id,
     next_player_id |-> sync.next_player_id,
     runs |-> sync.runs + 1, mode |-> mode, success |-> TRUE,
     games_synced |-> 0, games_skipped |-> 0, imported |-> {},
     existing |-> {}]

Cleared(s, mode, fail) ==
    IF mode = "overwrite" THEN clear_all_data(s, fail) ELSE s

\* the columns that have a game when the loop starts
WithExisting(s) ==
    [s EXCEPT !.existing = {g.spreadsheet_column : g \in s.game}]

sync_games(mode, fail) ==
    SyncFrom(WithExisting(Cleared(SyncStart(mode), mode, fail)),
             sheet, 1, mode, fail)

Synced(s) ==
    /\ game' = s.game
    /\ game_player' = s.game_player
    /\ player_rows' = s.player_rows
    /\ sync' = [runs |-> s.runs, mode |-> s.mode, success |-> s.success,
                games_synced |-> s.games_synced,
                games_skipped |-> s.games_skipped, imported |-> s.imported,
                existing |-> s.existing, next_game_id |-> s.next_game_id,
                next_player_id |-> s.next_player_id]

\* one run of sync_games in which at most one store request raises
SyncGames ==
    /\ sync.runs < MaxSyncRuns
    /\ \E mode \in {"sync", "overwrite"}, fail \in Failures :
           Synced(sync_games(mode, fail))
    /\ UNCHANGED <<game_vars, player_rating_history, run, handlers, frame,
                   bot_vars, sheet>>

\* an empty store and one of the sheets
InitSync ==
    /\ sheet \in Sheets
    /\ player_rows = {}
    /\ sync = [runs |-> 0, mode |-> "none", success |-> TRUE,
               games_synced |-> 0, games_skipped |-> 0, imported |-> {},
               existing |-> {}, next_game_id |-> 1, next_player_id |-> 1]
    /\ game = {}
    /\ game_player = <<>>
    /\ player_rating_history = <<>>
    /\ current_ratings = <<>>
    /\ players_data = <<>>
    /\ outcome = NoOutcome
    /\ run = NoRun
    /\ handlers = NoHandlers
    /\ frame = NoFrame
    /\ BotIdle

NextSync == SyncGames

SpecSync == InitSync /\ [][NextSync]_vars

GamePlayersOf(game_id) ==
    {j \in 1..Len(game_player) : game_player[j].game_id = game_id}

AllGamesComplete ==
    \A g \in game : Cardinality(GamePlayersOf(g.id)) = 10

\* in "sync" mode no column that had a game when the loop started is posted
NoSecondImport ==
    sync.mode = "sync" => sync.imported \cap sync.existing = {}

\* C30: Import integrity. After any run of sync_games, also one in which a
\* store request raised, every game row of the store has exactly ten
\* game_player rows, and a run in "sync" mode posts no game for a column
\* that already had one.
ImportIntegrity ==
    sync.runs > 0 => AllGamesComplete /\ NoSecondImport

\* a run in which no request raises leaves only complete games
ImportIntegrityUnfailed ==
    sync.runs = 1 /\ sync.games_synced = Cardinality(sync.imported)
        => AllGamesComplete

\* a second run in "sync" mode over the sheet skipped a column imported before
SyncedTwice ==
    /\ sync.runs = 2
    /\ sync.mode = "sync"
    /\ sync.existing # {}
    /\ sync.games_synced = 0
    /\ AllGamesComplete
    /\ game # {}

====
